---- MODULE Spec2Model ----
(***************************************************************************)
(* Model of the paper kernel (paperKernel.js inside src/scripts/clean-ui.js): *)
(* one text buffer (SSOT), a revision counter, the wrap width and the       *)
(* active diff, with the word-wrap layout and the edit actions.             *)
(*                                                                         *)
(* A JavaScript string is a sequence of its UTF-16 code units: an ASCII      *)
(* character is the one-character string, any other code unit of the Basic  *)
(* Multilingual Plane is named by "u" and its four hexadecimal digits       *)
(* ("u00e9" is U+00E9), and so are the ASCII characters a TLA+ string       *)
(* cannot hold (the vertical tab "u000b", the backtick "u0060");            *)
(* surrogates are not in the alphabet. Markup and escape entities the       *)
(* kernel emits are single multi-character chunks.                          *)
(* null is the empty sequence Null, a present value x is Some(x) == <<x>>.  *)
(* A JavaScript number that may be NaN, infinite or a fraction is a record, *)
(* see Num and Half. A call that raises leaves TypeError as its outcome.    *)
(***************************************************************************)
EXTENDS Integers, Sequences, FiniteSets, TLC

\* ------------------------------------------------------------------ bounds
\* Longest buffer the model explores (edits that would exceed it are not taken).
MaxLen == 8
\* Highest revision the model explores.
MaxRev == 2

\* The longest buffer seeded when every short buffer is laid out.
MaxWrapLen == 5

\* ------------------------------------------------------- JavaScript values
Null == <<>>
Some(x) == <<x>>

Num(n) == [k |-> "num", v |-> n]

\* The fraction n + 1/2, which stands for the numbers between n and n + 1.
Half(n) == [k |-> "half", v |-> n]
NaN == [k |-> "nan", v |-> 0]
PosInf == [k |-> "inf", v |-> 1]
NegInf == [k |-> "inf", v |-> -1]

Min2(a, b) == IF a <= b THEN a ELSE b
Max2(a, b) == IF a >= b THEN a ELSE b

\* Twice a finite number, by which two finite numbers are compared.
Twice(x) == IF x.k = "half" THEN 2 * x.v + 1 ELSE 2 * x.v

\* A finite number as a returned object holds it: a whole number as itself.
Js(x) == IF x.k = "num" THEN x.v ELSE x

\* The outcome of a call that raises: reading a property of undefined
\* ("TypeError: Cannot read properties of undefined").
TypeError == [threw |-> "TypeError"]

\* Number(x) || d, for a finite default d.
NumberOr(x, d) == IF x.k = "nan" \/ (x.k = "num" /\ x.v = 0) THEN d ELSE x

\* Math.min(x, n) for a whole n.
MathMin(x, n) ==
  IF x.k = "inf" THEN (IF x.v > 0 THEN Num(n) ELSE x)
  ELSE IF Twice(x) <= 2 * n THEN x ELSE Num(n)

\* Math.max(m, x) for a finite m and an x that is finite or -Infinity.
MathMax(m, x) == IF x.k = "inf" THEN m ELSE IF Twice(x) >= Twice(m) THEN x ELSE m

\* Math.max(1, Math.min(Number(x) || d, len))
ClampLine(x, d, len) == MathMax(Num(1), MathMin(NumberOr(x, d), len))

\* ------------------------------------------------------------------ strings
\* s.slice(a, b): 0-based, half-open, clipped to the string; a negative index
\* counts from the end of the string.
Slice(s, a, b) ==
  SubSeq(s, (IF a < 0 THEN Max2(Len(s) + a, 0) ELSE a) + 1,
            IF b < 0 THEN Max2(Len(s) + b, 0) ELSE Min2(b, Len(s)))

\* s.slice(a)
SliceFrom(s, a) == SubSeq(s, (IF a < 0 THEN Max2(Len(s) + a, 0) ELSE a) + 1, Len(s))

\* the class \s of the regular expressions and of trim(): the white space and
\* the line terminators of ECMAScript
IsWS(c) ==
  c \in {" ", "\n", "\t", "\r", "\f", "u000b", "u00a0", "u1680", "u2000",
         "u2001", "u2002", "u2003", "u2004", "u2005", "u2006", "u2007",
         "u2008", "u2009", "u200a", "u2028", "u2029", "u202f", "u205f",
         "u3000", "ufeff"}

RECURSIVE TrimStart(_)
TrimStart(s) == IF s # <<>> /\ IsWS(Head(s)) THEN TrimStart(Tail(s)) ELSE s

RECURSIVE TrimEnd(_)
TrimEnd(s) ==
  IF s # <<>> /\ IsWS(s[Len(s)]) THEN TrimEnd(SubSeq(s, 1, Len(s) - 1)) ELSE s

\* String.prototype.trim
Trim(s) == TrimEnd(TrimStart(s))

\* s.replace(/\s+/g, " ")
RECURSIVE CollapseWS(_)
CollapseWS(s) ==
  IF s = <<>> THEN <<>>
  ELSE IF IsWS(Head(s))
       THEN <<" ">> \o CollapseWS(TrimStart(s))
       ELSE <<Head(s)>> \o CollapseWS(Tail(s))

\* s.indexOf("\n", i), with -1 for "not found"
RECURSIVE IndexOfNL(_, _)
IndexOfNL(s, i) ==
  IF i >= Len(s) THEN -1
  ELSE IF s[i + 1] = "\n" THEN i ELSE IndexOfNL(s, i + 1)

\* while (c < para.length && para[c] === " ") c++
RECURSIVE SkipSpaces(_, _)
SkipSpaces(para, c) ==
  IF c < Len(para) /\ para[c + 1] = " " THEN SkipSpaces(para, c + 1) ELSE c

\* while (wEnd < para.length && para[wEnd] !== " ") wEnd++
RECURSIVE SkipWord(_, _)
SkipWord(para, c) ==
  IF c < Len(para) /\ para[c + 1] # " " THEN SkipWord(para, c + 1) ELSE c

\* ------------------------------------------------------------------ escHtml
EscChar(c) ==
  CASE c = "&" -> "&amp;"
    [] c = "<" -> "&lt;"
    [] c = ">" -> "&gt;"
    [] c = "\"" -> "&quot;"
    [] c = "'" -> "&#039;"
    [] OTHER -> c

escHtml(s) == [i \in 1..Len(s) |-> EscChar(s[i])]

\* --------------------------------------------- layoutWordWrapWithOffsets
\* Each loop is a recursive operator; a loop body is split into operators
\* that take the values computed so far as arguments.

\* What the inner loop leaves: the line built and the cursor.
Built(lineText, lineStartAbs, lineEndAbs, cursor) ==
  [text |-> lineText, start |-> lineStartAbs, end |-> lineEndAbs, cursor |-> cursor]

\* Candidate joining the word to the line without the space.
Candidate_NoSpace(lineText, word) == lineText \o word

\* lineText ? (lineText + " " + word) : word
Candidate(lineText, word) ==
  IF lineText # <<>> THEN lineText \o <<" ">> \o word ELSE word

\* CutLine reporting an empty span at the start of the cut.
CutLine_EmptySpan(pStart, wStart, cut) ==
  Built(cut, pStart + wStart, pStart + wStart, wStart + Len(cut))

\* CutLine reporting an end one past the cut.
CutLine_EndPastCut(pStart, wStart, cut) ==
  Built(cut, pStart + wStart, pStart + wStart + Len(cut) + 1, wStart + Len(cut))

\* CutLine resuming one character after the cut.
CutLine_SkipsOne(pStart, wStart, cut) ==
  Built(cut, pStart + wStart, pStart + wStart + Len(cut), wStart + Len(cut) + 1)

\* The single word longer than cols, cut: the line is `cut`.
CutLine(pStart, wStart, cut) ==
  Built(cut, pStart + wStart, pStart + wStart + Len(cut), wStart + Len(cut))

RECURSIVE BuildLine(_, _, _, _, _, _, _)

\* PlaceWord taking a candidate one character longer than cols.
PlaceWord_OneOver(para, pStart, cols, cursor, lineText, lineStartAbs, lineEndAbs, wStart, wEnd, word) ==
  IF Len(Candidate(lineText, word)) <= cols + 1
  THEN BuildLine(para, pStart, cols, SkipSpaces(para, wEnd),
                 Candidate(lineText, word),
                 IF lineText = <<>> THEN pStart + wStart ELSE lineStartAbs,
                 pStart + wEnd)
  ELSE IF lineText = <<>>
       THEN CutLine(pStart, wStart, Slice(word, 0, cols))
       ELSE Built(lineText, lineStartAbs, lineEndAbs, cursor)

\* The word para[wStart, wEnd) tried on the line being built.
PlaceWord(para, pStart, cols, cursor, lineText, lineStartAbs, lineEndAbs, wStart, wEnd, word) ==
  IF Len(Candidate(lineText, word)) <= cols
  THEN BuildLine(para, pStart, cols, SkipSpaces(para, wEnd),
                 Candidate(lineText, word),
                 IF lineText = <<>> THEN pStart + wStart ELSE lineStartAbs,
                 pStart + wEnd)
  ELSE IF lineText = <<>>
       THEN CutLine(pStart, wStart, Slice(word, 0, cols))
       ELSE Built(lineText, lineStartAbs, lineEndAbs, cursor)

\* The next word, if any, starts at wStart.
NextWord(para, pStart, cols, cursor, lineText, lineStartAbs, lineEndAbs, wStart) ==
  IF wStart >= Len(para)
  THEN Built(lineText, lineStartAbs, lineEndAbs, cursor)
  ELSE PlaceWord(para, pStart, cols, cursor, lineText, lineStartAbs, lineEndAbs,
                 wStart, SkipWord(para, wStart),
                 Slice(para, wStart, SkipWord(para, wStart)))

\* The inner loop, building one visual line from `cursor` on.
BuildLine(para, pStart, cols, cursor, lineText, lineStartAbs, lineEndAbs) ==
  IF cursor >= Len(para)
  THEN Built(lineText, lineStartAbs, lineEndAbs, cursor)
  ELSE NextWord(para, pStart, cols, cursor, lineText, lineStartAbs, lineEndAbs,
                SkipSpaces(para, cursor))

RECURSIVE WrapPara(_, _, _, _, _, _)

\* out.push({ lineNo, text, start, end }); lineNo++, and the next round.
PushLine(para, pStart, cols, lineNo, out, b) ==
  WrapPara(para, pStart, cols, b.cursor, lineNo + 1,
           Append(out, [lineNo |-> lineNo, text |-> b.text,
                        start |-> b.start, end |-> b.end]))

\* A round of the paragraph loop once the leading spaces are skipped.
StartLine(para, pStart, cols, lineNo, out, c1) ==
  IF c1 >= Len(para) THEN out
  ELSE PushLine(para, pStart, cols, lineNo, out,
                BuildLine(para, pStart, cols, c1, <<>>, pStart + c1, pStart + c1))

\* The loop over one paragraph: one visual line per round.
WrapPara(para, pStart, cols, cursor, lineNo, out) ==
  IF cursor >= Len(para) THEN out
  ELSE StartLine(para, pStart, cols, lineNo, out, SkipSpaces(para, cursor))

\* pEnd: the next newline from i on, or the end of the buffer.
ParaEnd(s, i) == IF IndexOfNL(s, i) = -1 THEN Len(s) ELSE IndexOfNL(s, i)

\* EmptyParaLine pushing no line.
EmptyParaLine_Never(para, pStart, out) == out

\* empty paragraph still yields one visual line
EmptyParaLine(para, pStart, out) ==
  IF Len(para) = 0
  THEN Append(out, [lineNo |-> Len(out) + 1, text |-> <<>>,
                    start |-> pStart, end |-> pStart])
  ELSE out

\* The loop over the paragraphs, while (i <= s.length), on the loop's
\* variables v = [i, out]: one round lays out the paragraph s[i, pEnd), then
\* i = pEnd + 1; if (pEnd === s.length) break.
RECURSIVE LayoutFrom(_, _, _)
LayoutFrom(s, cols, v) ==
  IF v.i > Len(s) THEN v.out
  ELSE LET pEnd == ParaEnd(s, v.i)
           para == Slice(s, v.i, pEnd)
           out2 == EmptyParaLine(para, v.i,
                                 WrapPara(para, v.i, cols, 0, Len(v.out) + 1, v.out))
       IN IF pEnd = Len(s) THEN out2
          ELSE LayoutFrom(s, cols, [i |-> pEnd + 1, out |-> out2])

\* if (!out.length) out.push({ lineNo: 1, text: "", start: 0, end: 0 })
OrEmptyLine(out) ==
  IF out = <<>>
  THEN <<[lineNo |-> 1, text |-> <<>>, start |-> 0, end |-> 0]>>
  ELSE out

layoutWordWrapWithOffsets(buffer, cols) ==
  OrEmptyLine(LayoutFrom(buffer, cols, [i |-> 0, out |-> <<>>]))

\* ------------------------------------- computeHighlightLinesByAbsRange
\* Overlap on closed intervals: touching spans count.
Overlap_Closed(v, a, b) == (v.start <= b) /\ (v.end >= a)

\* s < b && e > a
Overlap(v, a, b) == (v.start < b) /\ (v.end > a)

\* The line numbers of a sequence of visual lines.
LineNos(vis) == [i \in 1..Len(vis) |-> vis[i].lineNo]

\* The line numbers, in layout order, of the lines overlapping [absStart, absEnd).
computeHighlightLinesByAbsRange(visLines, absStart, absEnd) ==
  LET a == Max2(0, absStart)
      b == Max2(a, IF absEnd = 0 THEN a ELSE absEnd)
  IN LineNos(SelectSeq(visLines, LAMBDA v : Overlap(v, a, b)))

\* ------------------------------------------------------- buildAnnotWindow
SpanOpen == "<span class=\"newLineFull\">"
SpanClose == "</span>"

\* One line of the window: "" for an empty line, the escaped text otherwise,
\* wrapped in the newLineFull span when the line is highlighted.
AnnotHtml(v, highlightSet) ==
  IF v.text = <<>> THEN <<>>
  ELSE IF v.lineNo \in highlightSet
       THEN <<SpanOpen>> \o escHtml(v.text) \o <<SpanClose>>
       ELSE escHtml(v.text)

\* slice.map(...)
AnnotLines(slice, highlightSet) ==
  [i \in 1..Len(slice) |-> AnnotHtml(slice[i], highlightSet)]

\* buildAnnotWindow taking every line from startLine on.
buildAnnotWindow_Unbounded(afterVis, startLine, windowSize, highlightSet) ==
  [startLine |-> startLine,
   htmlLines |-> AnnotLines(SliceFrom(afterVis, startLine - 1), highlightSet)]

buildAnnotWindow(afterVis, startLine, windowSize, highlightSet) ==
  [startLine |-> startLine,
   htmlLines |-> AnnotLines(Slice(afterVis, startLine - 1, startLine - 1 + windowSize),
                            highlightSet)]

\* ------------------------------------------------------- createPaperKernel
\* const WINDOW = 45
WINDOW == 45

\* The paper object of a fresh kernel.
createPaperKernel(cols) == [cols |-> cols, rev |-> 0, text |-> <<>>, diff |-> Null]

getVisualLines(p) == layoutWordWrapWithOffsets(p.text, p.cols)

ToSet(q) == {q[i] : i \in 1..Len(q)}

\* The paper after _setDiff({anchorLine, removedText, removedLines, highlightLines}):
\* winStart = Math.max(1, (Number(anchorLine) || 1) - 2); the slice of
\* buildAnnotWindow drops the fraction of a winStart that has one, and
\* annot.startLine keeps it.
setDiff(p, anchorLine, removedText, removedLines, highlightLines) ==
  LET a == NumberOr(anchorLine, Num(1))
      winStart == MathMax(Num(1), [a EXCEPT !.v = @ - 2]) IN
  [p EXCEPT !.diff =
     Some([anchorLine |-> Js(a),
           removedText |-> removedText,
           removedLines |-> removedLines,
           highlightLines |-> highlightLines,
           annot |-> [buildAnnotWindow(getVisualLines(p), winStart.v,
                                       WINDOW, ToSet(highlightLines))
                        EXCEPT !.startLine = Js(winStart)]])]

\* NormalizeRep without the trim().
NormalizeRep_NoTrim(newText) == CollapseWS(newText)

\* String(newText ?? "").replace(/\s+/g, " ").trim()
NormalizeRep(newText) == Trim(CollapseWS(newText))

\* removedText set whether or not the replacement is a clear.
RemovedText_Always(isClear, oldText) == Some(oldText)

\* removedText: isClear ? null : oldText
RemovedText(isClear, oldText) == IF isClear THEN Null ELSE Some(oldText)

\* removedLines set whether or not the replacement is a clear.
RemovedLines_Always(isClear, oldText) == Some(<<oldText>>)

\* removedLines: isClear ? [oldText] : null
RemovedLines(isClear, oldText) == IF isClear THEN Some(<<oldText>>) ELSE Null

\* _writeReplaceInternal from `const isClear` on: the diff set and the object
\* returned, given the paper p1 after the splice and its highlightLines.
ReplaceResult(p1, N, oldText, isClear, highlightLines) ==
  [paper |-> setDiff(p1, Num(N), RemovedText(isClear, oldText),
                     RemovedLines(isClear, oldText), highlightLines),
   out |-> [ok |-> TRUE, anchorLine |-> N,
            removedText |-> RemovedText(isClear, oldText),
            removedLines |-> RemovedLines(isClear, oldText),
            paper_rev |-> p1.rev, highlightLines |-> highlightLines]]

\* _writeReplaceInternal after the splice: afterVis is the layout of p1.
ReplaceDone(p1, N, oldText, rep, start, afterVis) ==
  ReplaceResult(p1, N, oldText, Len(rep) = 0,
                computeHighlightLinesByAbsRange(afterVis, start, start + Len(rep)))

\* paper.text = paper.text.slice(0, start) + rep + paper.text.slice(end); paper.rev++
Spliced(p, start, end, rep) ==
  [p EXCEPT !.text = Slice(p.text, 0, start) \o rep \o SliceFrom(p.text, end),
            !.rev = p.rev + 1]

\* _writeReplaceInternal on the target line N of the layout before.
ReplaceTarget(p, N, target, rep) ==
  ReplaceDone(Spliced(p, target.start, target.end, rep), N, target.text, rep,
              target.start,
              getVisualLines(Spliced(p, target.start, target.end, rep)))

\* _writeReplaceInternal once beforeVis and rep are computed: for an N that
\* is no whole number beforeVis[N - 1] is undefined and target.text raises.
ReplaceIn(p, beforeVis, anchorLine, rep) ==
  LET N == ClampLine(anchorLine, Num(1), Len(beforeVis)) IN
  IF N.k = "half" THEN [paper |-> p, out |-> TypeError]
  ELSE ReplaceTarget(p, N.v, beforeVis[N.v], rep)

\* _writeReplaceInternal(anchorLine, newText): the paper it leaves and the object
\* it returns.
writeReplaceInternal(p, anchorLine, newText) ==
  ReplaceIn(p, getVisualLines(p), anchorLine, NormalizeRep(newText))

\* --------------------------------------------------------------- actions
\* The case data of String.prototype.toLowerCase (Unicode 17.0, Basic
\* Multilingual Plane): lower, the code units a character with a lower-case
\* mapping becomes; cased and ignorable, the characters the Final_Sigma rule
\* takes as cased letters and as case-ignorable (a character that is both is
\* listed as ignorable, as the rule reads it).
Case ==
  [lower |->
     [
      A |-> <<"a">>, B |-> <<"b">>, C |-> <<"c">>, D |-> <<"d">>, E |-> <<"e">>,
      F |-> <<"f">>, G |-> <<"g">>, H |-> <<"h">>, I |-> <<"i">>, J |-> <<"j">>,
      K |-> <<"k">>, L |-> <<"l">>, M |-> <<"m">>, N |-> <<"n">>, O |-> <<"o">>,
      P |-> <<"p">>, Q |-> <<"q">>, R |-> <<"r">>, S |-> <<"s">>, T |-> <<"t">>,
      U |-> <<"u">>, V |-> <<"v">>, W |-> <<"w">>, X |-> <<"x">>, Y |-> <<"y">>,
      Z |-> <<"z">>, u00c0 |-> <<"u00e0">>, u00c1 |-> <<"u00e1">>, u00c2 |-> <<"u00e2">>,
      u00c3 |-> <<"u00e3">>, u00c4 |-> <<"u00e4">>, u00c5 |-> <<"u00e5">>,
      u00c6 |-> <<"u00e6">>, u00c7 |-> <<"u00e7">>, u00c8 |-> <<"u00e8">>,
      u00c9 |-> <<"u00e9">>, u00ca |-> <<"u00ea">>, u00cb |-> <<"u00eb">>,
      u00cc |-> <<"u00ec">>, u00cd |-> <<"u00ed">>, u00ce |-> <<"u00ee">>,
      u00cf |-> <<"u00ef">>, u00d0 |-> <<"u00f0">>, u00d1 |-> <<"u00f1">>,
      u00d2 |-> <<"u00f2">>, u00d3 |-> <<"u00f3">>, u00d4 |-> <<"u00f4">>,
      u00d5 |-> <<"u00f5">>, u00d6 |-> <<"u00f6">>, u00d8 |-> <<"u00f8">>,
      u00d9 |-> <<"u00f9">>, u00da |-> <<"u00fa">>, u00db |-> <<"u00fb">>,
      u00dc |-> <<"u00fc">>, u00dd |-> <<"u00fd">>, u00de |-> <<"u00fe">>,
      u0100 |-> <<"u0101">>, u0102 |-> <<"u0103">>, u0104 |-> <<"u0105">>,
      u0106 |-> <<"u0107">>, u0108 |-> <<"u0109">>, u010a |-> <<"u010b">>,
      u010c |-> <<"u010d">>, u010e |-> <<"u010f">>, u0110 |-> <<"u0111">>,
      u0112 |-> <<"u0113">>, u0114 |-> <<"u0115">>, u0116 |-> <<"u0117">>,
      u0118 |-> <<"u0119">>, u011a |-> <<"u011b">>, u011c |-> <<"u011d">>,
      u011e |-> <<"u011f">>, u0120 |-> <<"u0121">>, u0122 |-> <<"u0123">>,
      u0124 |-> <<"u0125">>, u0126 |-> <<"u0127">>, u0128 |-> <<"u0129">>,
      u012a |-> <<"u012b">>, u012c |-> <<"u012d">>, u012e |-> <<"u012f">>,
      u0130 |-> <<"i", "u0307">>, u0132 |-> <<"u0133">>, u0134 |-> <<"u0135">>,
      u0136 |-> <<"u0137">>, u0139 |-> <<"u013a">>, u013b |-> <<"u013c">>,
      u013d |-> <<"u013e">>, u013f |-> <<"u0140">>, u0141 |-> <<"u0142">>,
      u0143 |-> <<"u0144">>, u0145 |-> <<"u0146">>, u0147 |-> <<"u0148">>,
      u014a |-> <<"u014b">>, u014c |-> <<"u014d">>, u014e |-> <<"u014f">>,
      u0150 |-> <<"u0151">>, u0152 |-> <<"u0153">>, u0154 |-> <<"u0155">>,
      u0156 |-> <<"u0157">>, u0158 |-> <<"u0159">>, u015a |-> <<"u015b">>,
      u015c |-> <<"u015d">>, u015e |-> <<"u015f">>, u0160 |-> <<"u0161">>,
      u0162 |-> <<"u0163">>, u0164 |-> <<"u0165">>, u0166 |-> <<"u0167">>,
      u0168 |-> <<"u0169">>, u016a |-> <<"u016b">>, u016c |-> <<"u016d">>,
      u016e |-> <<"u016f">>, u0170 |-> <<"u0171">>, u0172 |-> <<"u0173">>,
      u0174 |-> <<"u0175">>, u0176 |-> <<"u0177">>, u0178 |-> <<"u00ff">>,
      u0179 |-> <<"u017a">>, u017b |-> <<"u017c">>, u017d |-> <<"u017e">>,
      u0181 |-> <<"u0253">>, u0182 |-> <<"u0183">>, u0184 |-> <<"u0185">>,
      u0186 |-> <<"u0254">>, u0187 |-> <<"u0188">>, u0189 |-> <<"u0256">>,
      u018a |-> <<"u0257">>, u018b |-> <<"u018c">>, u018e |-> <<"u01dd">>,
      u018f |-> <<"u0259">>, u0190 |-> <<"u025b">>, u0191 |-> <<"u0192">>,
      u0193 |-> <<"u0260">>, u0194 |-> <<"u0263">>, u0196 |-> <<"u0269">>,
      u0197 |-> <<"u0268">>, u0198 |-> <<"u0199">>, u019c |-> <<"u026f">>,
      u019d |-> <<"u0272">>, u019f |-> <<"u0275">>, u01a0 |-> <<"u01a1">>,
      u01a2 |-> <<"u01a3">>, u01a4 |-> <<"u01a5">>, u01a6 |-> <<"u0280">>,
      u01a7 |-> <<"u01a8">>, u01a9 |-> <<"u0283">>, u01ac |-> <<"u01ad">>,
      u01ae |-> <<"u0288">>, u01af |-> <<"u01b0">>, u01b1 |-> <<"u028a">>,
      u01b2 |-> <<"u028b">>, u01b3 |-> <<"u01b4">>, u01b5 |-> <<"u01b6">>,
      u01b7 |-> <<"u0292">>, u01b8 |-> <<"u01b9">>, u01bc |-> <<"u01bd">>,
      u01c4 |-> <<"u01c6">>, u01c5 |-> <<"u01c6">>, u01c7 |-> <<"u01c9">>,
      u01c8 |-> <<"u01c9">>, u01ca |-> <<"u01cc">>, u01cb |-> <<"u01cc">>,
      u01cd |-> <<"u01ce">>, u01cf |-> <<"u01d0">>, u01d1 |-> <<"u01d2">>,
      u01d3 |-> <<"u01d4">>, u01d5 |-> <<"u01d6">>, u01d7 |-> <<"u01d8">>,
      u01d9 |-> <<"u01da">>, u01db |-> <<"u01dc">>, u01de |-> <<"u01df">>,
      u01e0 |-> <<"u01e1">>, u01e2 |-> <<"u01e3">>, u01e4 |-> <<"u01e5">>,
      u01e6 |-> <<"u01e7">>, u01e8 |-> <<"u01e9">>, u01ea |-> <<"u01eb">>,
      u01ec |-> <<"u01ed">>, u01ee |-> <<"u01ef">>, u01f1 |-> <<"u01f3">>,
      u01f2 |-> <<"u01f3">>, u01f4 |-> <<"u01f5">>, u01f6 |-> <<"u0195">>,
      u01f7 |-> <<"u01bf">>, u01f8 |-> <<"u01f9">>, u01fa |-> <<"u01fb">>,
      u01fc |-> <<"u01fd">>, u01fe |-> <<"u01ff">>, u0200 |-> <<"u0201">>,
      u0202 |-> <<"u0203">>, u0204 |-> <<"u0205">>, u0206 |-> <<"u0207">>,
      u0208 |-> <<"u0209">>, u020a |-> <<"u020b">>, u020c |-> <<"u020d">>,
      u020e |-> <<"u020f">>, u0210 |-> <<"u0211">>, u0212 |-> <<"u0213">>,
      u0214 |-> <<"u0215">>, u0216 |-> <<"u0217">>, u0218 |-> <<"u0219">>,
      u021a |-> <<"u021b">>, u021c |-> <<"u021d">>, u021e |-> <<"u021f">>,
      u0220 |-> <<"u019e">>, u0222 |-> <<"u0223">>, u0224 |-> <<"u0225">>,
      u0226 |-> <<"u0227">>, u0228 |-> <<"u0229">>, u022a |-> <<"u022b">>,
      u022c |-> <<"u022d">>, u022e |-> <<"u022f">>, u0230 |-> <<"u0231">>,
      u0232 |-> <<"u0233">>, u023a |-> <<"u2c65">>, u023b |-> <<"u023c">>,
      u023d |-> <<"u019a">>, u023e |-> <<"u2c66">>, u0241 |-> <<"u0242">>,
      u0243 |-> <<"u0180">>, u0244 |-> <<"u0289">>, u0245 |-> <<"u028c">>,
      u0246 |-> <<"u0247">>, u0248 |-> <<"u0249">>, u024a |-> <<"u024b">>,
      u024c |-> <<"u024d">>, u024e |-> <<"u024f">>, u0370 |-> <<"u0371">>,
      u0372 |-> <<"u0373">>, u0376 |-> <<"u0377">>, u037f |-> <<"u03f3">>,
      u0386 |-> <<"u03ac">>, u0388 |-> <<"u03ad">>, u0389 |-> <<"u03ae">>,
      u038a |-> <<"u03af">>, u038c |-> <<"u03cc">>, u038e |-> <<"u03cd">>,
      u038f |-> <<"u03ce">>, u0391 |-> <<"u03b1">>, u0392 |-> <<"u03b2">>,
      u0393 |-> <<"u03b3">>, u0394 |-> <<"u03b4">>, u0395 |-> <<"u03b5">>,
      u0396 |-> <<"u03b6">>, u0397 |-> <<"u03b7">>, u0398 |-> <<"u03b8">>,
      u0399 |-> <<"u03b9">>, u039a |-> <<"u03ba">>, u039b |-> <<"u03bb">>,
      u039c |-> <<"u03bc">>, u039d |-> <<"u03bd">>, u039e |-> <<"u03be">>,
      u039f |-> <<"u03bf">>, u03a0 |-> <<"u03c0">>, u03a1 |-> <<"u03c1">>,
      u03a3 |-> <<"u03c3">>, u03a4 |-> <<"u03c4">>, u03a5 |-> <<"u03c5">>,
      u03a6 |-> <<"u03c6">>, u03a7 |-> <<"u03c7">>, u03a8 |-> <<"u03c8">>,
      u03a9 |-> <<"u03c9">>, u03aa |-> <<"u03ca">>, u03ab |-> <<"u03cb">>,
      u03cf |-> <<"u03d7">>, u03d8 |-> <<"u03d9">>, u03da |-> <<"u03db">>,
      u03dc |-> <<"u03dd">>, u03de |-> <<"u03df">>, u03e0 |-> <<"u03e1">>,
      u03e2 |-> <<"u03e3">>, u03e4 |-> <<"u03e5">>, u03e6 |-> <<"u03e7">>,
      u03e8 |-> <<"u03e9">>, u03ea |-> <<"u03eb">>, u03ec |-> <<"u03ed">>,
      u03ee |-> <<"u03ef">>, u03f4 |-> <<"u03b8">>, u03f7 |-> <<"u03f8">>,
      u03f9 |-> <<"u03f2">>, u03fa |-> <<"u03fb">>, u03fd |-> <<"u037b">>,
      u03fe |-> <<"u037c">>, u03ff |-> <<"u037d">>, u0400 |-> <<"u0450">>,
      u0401 |-> <<"u0451">>, u0402 |-> <<"u0452">>, u0403 |-> <<"u0453">>,
      u0404 |-> <<"u0454">>, u0405 |-> <<"u0455">>, u0406 |-> <<"u0456">>,
      u0407 |-> <<"u0457">>, u0408 |-> <<"u0458">>, u0409 |-> <<"u0459">>,
      u040a |-> <<"u045a">>, u040b |-> <<"u045b">>, u040c |-> <<"u045c">>,
      u040d |-> <<"u045d">>, u040e |-> <<"u045e">>, u040f |-> <<"u045f">>,
      u0410 |-> <<"u0430">>, u0411 |-> <<"u0431">>, u0412 |-> <<"u0432">>,
      u0413 |-> <<"u0433">>, u0414 |-> <<"u0434">>, u0415 |-> <<"u0435">>,
      u0416 |-> <<"u0436">>, u0417 |-> <<"u0437">>, u0418 |-> <<"u0438">>,
      u0419 |-> <<"u0439">>, u041a |-> <<"u043a">>, u041b |-> <<"u043b">>,
      u041c |-> <<"u043c">>, u041d |-> <<"u043d">>, u041e |-> <<"u043e">>,
      u041f |-> <<"u043f">>, u0420 |-> <<"u0440">>, u0421 |-> <<"u0441">>,
      u0422 |-> <<"u0442">>, u0423 |-> <<"u0443">>, u0424 |-> <<"u0444">>,
      u0425 |-> <<"u0445">>, u0426 |-> <<"u0446">>, u0427 |-> <<"u0447">>,
      u0428 |-> <<"u0448">>, u0429 |-> <<"u0449">>, u042a |-> <<"u044a">>,
      u042b |-> <<"u044b">>, u042c |-> <<"u044c">>, u042d |-> <<"u044d">>,
      u042e |-> <<"u044e">>, u042f |-> <<"u044f">>, u0460 |-> <<"u0461">>,
      u0462 |-> <<"u0463">>, u0464 |-> <<"u0465">>, u0466 |-> <<"u0467">>,
      u0468 |-> <<"u0469">>, u046a |-> <<"u046b">>, u046c |-> <<"u046d">>,
      u046e |-> <<"u046f">>, u0470 |-> <<"u0471">>, u0472 |-> <<"u0473">>,
      u0474 |-> <<"u0475">>, u0476 |-> <<"u0477">>, u0478 |-> <<"u0479">>,
      u047a |-> <<"u047b">>, u047c |-> <<"u047d">>, u047e |-> <<"u047f">>,
      u0480 |-> <<"u0481">>, u048a |-> <<"u048b">>, u048c |-> <<"u048d">>,
      u048e |-> <<"u048f">>, u0490 |-> <<"u0491">>, u0492 |-> <<"u0493">>,
      u0494 |-> <<"u0495">>, u0496 |-> <<"u0497">>, u0498 |-> <<"u0499">>,
      u049a |-> <<"u049b">>, u049c |-> <<"u049d">>, u049e |-> <<"u049f">>,
      u04a0 |-> <<"u04a1">>, u04a2 |-> <<"u04a3">>, u04a4 |-> <<"u04a5">>,
      u04a6 |-> <<"u04a7">>, u04a8 |-> <<"u04a9">>, u04aa |-> <<"u04ab">>,
      u04ac |-> <<"u04ad">>, u04ae |-> <<"u04af">>, u04b0 |-> <<"u04b1">>,
      u04b2 |-> <<"u04b3">>, u04b4 |-> <<"u04b5">>, u04b6 |-> <<"u04b7">>,
      u04b8 |-> <<"u04b9">>, u04ba |-> <<"u04bb">>, u04bc |-> <<"u04bd">>,
      u04be |-> <<"u04bf">>, u04c0 |-> <<"u04cf">>, u04c1 |-> <<"u04c2">>,
      u04c3 |-> <<"u04c4">>, u04c5 |-> <<"u04c6">>, u04c7 |-> <<"u04c8">>,
      u04c9 |-> <<"u04ca">>, u04cb |-> <<"u04cc">>, u04cd |-> <<"u04ce">>,
      u04d0 |-> <<"u04d1">>, u04d2 |-> <<"u04d3">>, u04d4 |-> <<"u04d5">>,
      u04d6 |-> <<"u04d7">>, u04d8 |-> <<"u04d9">>, u04da |-> <<"u04db">>,
      u04dc |-> <<"u04dd">>, u04de |-> <<"u04df">>, u04e0 |-> <<"u04e1">>,
      u04e2 |-> <<"u04e3">>, u04e4 |-> <<"u04e5">>, u04e6 |-> <<"u04e7">>,
      u04e8 |-> <<"u04e9">>, u04ea |-> <<"u04eb">>, u04ec |-> <<"u04ed">>,
      u04ee |-> <<"u04ef">>, u04f0 |-> <<"u04f1">>, u04f2 |-> <<"u04f3">>,
      u04f4 |-> <<"u04f5">>, u04f6 |-> <<"u04f7">>, u04f8 |-> <<"u04f9">>,
      u04fa |-> <<"u04fb">>, u04fc |-> <<"u04fd">>, u04fe |-> <<"u04ff">>,
      u0500 |-> <<"u0501">>, u0502 |-> <<"u0503">>, u0504 |-> <<"u0505">>,
      u0506 |-> <<"u0507">>, u0508 |-> <<"u0509">>, u050a |-> <<"u050b">>,
      u050c |-> <<"u050d">>, u050e |-> <<"u050f">>, u0510 |-> <<"u0511">>,
      u0512 |-> <<"u0513">>, u0514 |-> <<"u0515">>, u0516 |-> <<"u0517">>,
      u0518 |-> <<"u0519">>, u051a |-> <<"u051b">>, u051c |-> <<"u051d">>,
      u051e |-> <<"u051f">>, u0520 |-> <<"u0521">>, u0522 |-> <<"u0523">>,
      u0524 |-> <<"u0525">>, u0526 |-> <<"u0527">>, u0528 |-> <<"u0529">>,
      u052a |-> <<"u052b">>, u052c |-> <<"u052d">>, u052e |-> <<"u052f">>,
      u0531 |-> <<"u0561">>, u0532 |-> <<"u0562">>, u0533 |-> <<"u0563">>,
      u0534 |-> <<"u0564">>, u0535 |-> <<"u0565">>, u0536 |-> <<"u0566">>,
      u0537 |-> <<"u0567">>, u0538 |-> <<"u0568">>, u0539 |-> <<"u0569">>,
      u053a |-> <<"u056a">>, u053b |-> <<"u056b">>, u053c |-> <<"u056c">>,
      u053d |-> <<"u056d">>, u053e |-> <<"u056e">>, u053f |-> <<"u056f">>,
      u0540 |-> <<"u0570">>, u0541 |-> <<"u0571">>, u0542 |-> <<"u0572">>,
      u0543 |-> <<"u0573">>, u0544 |-> <<"u0574">>, u0545 |-> <<"u0575">>,
      u0546 |-> <<"u0576">>, u0547 |-> <<"u0577">>, u0548 |-> <<"u0578">>,
      u0549 |-> <<"u0579">>, u054a |-> <<"u057a">>, u054b |-> <<"u057b">>,
      u054c |-> <<"u057c">>, u054d |-> <<"u057d">>, u054e |-> <<"u057e">>,
      u054f |-> <<"u057f">>, u0550 |-> <<"u0580">>, u0551 |-> <<"u0581">>,
      u0552 |-> <<"u0582">>, u0553 |-> <<"u0583">>, u0554 |-> <<"u0584">>,
      u0555 |-> <<"u0585">>, u0556 |-> <<"u0586">>, u10a0 |-> <<"u2d00">>,
      u10a1 |-> <<"u2d01">>, u10a2 |-> <<"u2d02">>, u10a3 |-> <<"u2d03">>,
      u10a4 |-> <<"u2d04">>, u10a5 |-> <<"u2d05">>, u10a6 |-> <<"u2d06">>,
      u10a7 |-> <<"u2d07">>, u10a8 |-> <<"u2d08">>, u10a9 |-> <<"u2d09">>,
      u10aa |-> <<"u2d0a">>, u10ab |-> <<"u2d0b">>, u10ac |-> <<"u2d0c">>,
      u10ad |-> <<"u2d0d">>, u10ae |-> <<"u2d0e">>, u10af |-> <<"u2d0f">>,
      u10b0 |-> <<"u2d10">>, u10b1 |-> <<"u2d11">>, u10b2 |-> <<"u2d12">>,
      u10b3 |-> <<"u2d13">>, u10b4 |-> <<"u2d14">>, u10b5 |-> <<"u2d15">>,
      u10b6 |-> <<"u2d16">>, u10b7 |-> <<"u2d17">>, u10b8 |-> <<"u2d18">>,
      u10b9 |-> <<"u2d19">>, u10ba |-> <<"u2d1a">>, u10bb |-> <<"u2d1b">>,
      u10bc |-> <<"u2d1c">>, u10bd |-> <<"u2d1d">>, u10be |-> <<"u2d1e">>,
      u10bf |-> <<"u2d1f">>, u10c0 |-> <<"u2d20">>, u10c1 |-> <<"u2d21">>,
      u10c2 |-> <<"u2d22">>, u10c3 |-> <<"u2d23">>, u10c4 |-> <<"u2d24">>,
      u10c5 |-> <<"u2d25">>, u10c7 |-> <<"u2d27">>, u10cd |-> <<"u2d2d">>,
      u13a0 |-> <<"uab70">>, u13a1 |-> <<"uab71">>, u13a2 |-> <<"uab72">>,
      u13a3 |-> <<"uab73">>, u13a4 |-> <<"uab74">>, u13a5 |-> <<"uab75">>,
      u13a6 |-> <<"uab76">>, u13a7 |-> <<"uab77">>, u13a8 |-> <<"uab78">>,
      u13a9 |-> <<"uab79">>, u13aa |-> <<"uab7a">>, u13ab |-> <<"uab7b">>,
      u13ac |-> <<"uab7c">>, u13ad |-> <<"uab7d">>, u13ae |-> <<"uab7e">>,
      u13af |-> <<"uab7f">>, u13b0 |-> <<"uab80">>, u13b1 |-> <<"uab81">>,
      u13b2 |-> <<"uab82">>, u13b3 |-> <<"uab83">>, u13b4 |-> <<"uab84">>,
      u13b5 |-> <<"uab85">>, u13b6 |-> <<"uab86">>, u13b7 |-> <<"uab87">>,
      u13b8 |-> <<"uab88">>, u13b9 |-> <<"uab89">>, u13ba |-> <<"uab8a">>,
      u13bb |-> <<"uab8b">>, u13bc |-> <<"uab8c">>, u13bd |-> <<"uab8d">>,
      u13be |-> <<"uab8e">>, u13bf |-> <<"uab8f">>, u13c0 |-> <<"uab90">>,
      u13c1 |-> <<"uab91">>, u13c2 |-> <<"uab92">>, u13c3 |-> <<"uab93">>,
      u13c4 |-> <<"uab94">>, u13c5 |-> <<"uab95">>, u13c6 |-> <<"uab96">>,
      u13c7 |-> <<"uab97">>, u13c8 |-> <<"uab98">>, u13c9 |-> <<"uab99">>,
      u13ca |-> <<"uab9a">>, u13cb |-> <<"uab9b">>, u13cc |-> <<"uab9c">>,
      u13cd |-> <<"uab9d">>, u13ce |-> <<"uab9e">>, u13cf |-> <<"uab9f">>,
      u13d0 |-> <<"uaba0">>, u13d1 |-> <<"uaba1">>, u13d2 |-> <<"uaba2">>,
      u13d3 |-> <<"uaba3">>, u13d4 |-> <<"uaba4">>, u13d5 |-> <<"uaba5">>,
      u13d6 |-> <<"uaba6">>, u13d7 |-> <<"uaba7">>, u13d8 |-> <<"uaba8">>,
      u13d9 |-> <<"uaba9">>, u13da |-> <<"uabaa">>, u13db |-> <<"uabab">>,
      u13dc |-> <<"uabac">>, u13dd |-> <<"uabad">>, u13de |-> <<"uabae">>,
      u13df |-> <<"uabaf">>, u13e0 |-> <<"uabb0">>, u13e1 |-> <<"uabb1">>,
      u13e2 |-> <<"uabb2">>, u13e3 |-> <<"uabb3">>, u13e4 |-> <<"uabb4">>,
      u13e5 |-> <<"uabb5">>, u13e6 |-> <<"uabb6">>, u13e7 |-> <<"uabb7">>,
      u13e8 |-> <<"uabb8">>, u13e9 |-> <<"uabb9">>, u13ea |-> <<"uabba">>,
      u13eb |-> <<"uabbb">>, u13ec |-> <<"uabbc">>, u13ed |-> <<"uabbd">>,
      u13ee |-> <<"uabbe">>, u13ef |-> <<"uabbf">>, u13f0 |-> <<"u13f8">>,
      u13f1 |-> <<"u13f9">>, u13f2 |-> <<"u13fa">>, u13f3 |-> <<"u13fb">>,
      u13f4 |-> <<"u13fc">>, u13f5 |-> <<"u13fd">>, u1c89 |-> <<"u1c8a">>,
      u1c90 |-> <<"u10d0">>, u1c91 |-> <<"u10d1">>, u1c92 |-> <<"u10d2">>,
      u1c93 |-> <<"u10d3">>, u1c94 |-> <<"u10d4">>, u1c95 |-> <<"u10d5">>,
      u1c96 |-> <<"u10d6">>, u1c97 |-> <<"u10d7">>, u1c98 |-> <<"u10d8">>,
      u1c99 |-> <<"u10d9">>, u1c9a |-> <<"u10da">>, u1c9b |-> <<"u10db">>,
      u1c9c |-> <<"u10dc">>, u1c9d |-> <<"u10dd">>, u1c9e |-> <<"u10de">>,
      u1c9f |-> <<"u10df">>, u1ca0 |-> <<"u10e0">>, u1ca1 |-> <<"u10e1">>,
      u1ca2 |-> <<"u10e2">>, u1ca3 |-> <<"u10e3">>, u1ca4 |-> <<"u10e4">>,
      u1ca5 |-> <<"u10e5">>, u1ca6 |-> <<"u10e6">>, u1ca7 |-> <<"u10e7">>,
      u1ca8 |-> <<"u10e8">>, u1ca9 |-> <<"u10e9">>, u1caa |-> <<"u10ea">>,
      u1cab |-> <<"u10eb">>, u1cac |-> <<"u10ec">>, u1cad |-> <<"u10ed">>,
      u1cae |-> <<"u10ee">>, u1caf |-> <<"u10ef">>, u1cb0 |-> <<"u10f0">>,
      u1cb1 |-> <<"u10f1">>, u1cb2 |-> <<"u10f2">>, u1cb3 |-> <<"u10f3">>,
      u1cb4 |-> <<"u10f4">>, u1cb5 |-> <<"u10f5">>, u1cb6 |-> <<"u10f6">>,
      u1cb7 |-> <<"u10f7">>, u1cb8 |-> <<"u10f8">>, u1cb9 |-> <<"u10f9">>,
      u1cba |-> <<"u10fa">>, u1cbd |-> <<"u10fd">>, u1cbe |-> <<"u10fe">>,
      u1cbf |-> <<"u10ff">>, u1e00 |-> <<"u1e01">>, u1e02 |-> <<"u1e03">>,
      u1e04 |-> <<"u1e05">>, u1e06 |-> <<"u1e07">>, u1e08 |-> <<"u1e09">>,
      u1e0a |-> <<"u1e0b">>, u1e0c |-> <<"u1e0d">>, u1e0e |-> <<"u1e0f">>,
      u1e10 |-> <<"u1e11">>, u1e12 |-> <<"u1e13">>, u1e14 |-> <<"u1e15">>,
      u1e16 |-> <<"u1e17">>, u1e18 |-> <<"u1e19">>, u1e1a |-> <<"u1e1b">>,
      u1e1c |-> <<"u1e1d">>, u1e1e |-> <<"u1e1f">>, u1e20 |-> <<"u1e21">>,
      u1e22 |-> <<"u1e23">>, u1e24 |-> <<"u1e25">>, u1e26 |-> <<"u1e27">>,
      u1e28 |-> <<"u1e29">>, u1e2a |-> <<"u1e2b">>, u1e2c |-> <<"u1e2d">>,
      u1e2e |-> <<"u1e2f">>, u1e30 |-> <<"u1e31">>, u1e32 |-> <<"u1e33">>,
      u1e34 |-> <<"u1e35">>, u1e36 |-> <<"u1e37">>, u1e38 |-> <<"u1e39">>,
      u1e3a |-> <<"u1e3b">>, u1e3c |-> <<"u1e3d">>, u1e3e |-> <<"u1e3f">>,
      u1e40 |-> <<"u1e41">>, u1e42 |-> <<"u1e43">>, u1e44 |-> <<"u1e45">>,
      u1e46 |-> <<"u1e47">>, u1e48 |-> <<"u1e49">>, u1e4a |-> <<"u1e4b">>,
      u1e4c |-> <<"u1e4d">>, u1e4e |-> <<"u1e4f">>, u1e50 |-> <<"u1e51">>,
      u1e52 |-> <<"u1e53">>, u1e54 |-> <<"u1e55">>, u1e56 |-> <<"u1e57">>,
      u1e58 |-> <<"u1e59">>, u1e5a |-> <<"u1e5b">>, u1e5c |-> <<"u1e5d">>,
      u1e5e |-> <<"u1e5f">>, u1e60 |-> <<"u1e61">>, u1e62 |-> <<"u1e63">>,
      u1e64 |-> <<"u1e65">>, u1e66 |-> <<"u1e67">>, u1e68 |-> <<"u1e69">>,
      u1e6a |-> <<"u1e6b">>, u1e6c |-> <<"u1e6d">>, u1e6e |-> <<"u1e6f">>,
      u1e70 |-> <<"u1e71">>, u1e72 |-> <<"u1e73">>, u1e74 |-> <<"u1e75">>,
      u1e76 |-> <<"u1e77">>, u1e78 |-> <<"u1e79">>, u1e7a |-> <<"u1e7b">>,
      u1e7c |-> <<"u1e7d">>, u1e7e |-> <<"u1e7f">>, u1e80 |-> <<"u1e81">>,
      u1e82 |-> <<"u1e83">>, u1e84 |-> <<"u1e85">>, u1e86 |-> <<"u1e87">>,
      u1e88 |-> <<"u1e89">>, u1e8a |-> <<"u1e8b">>, u1e8c |-> <<"u1e8d">>,
      u1e8e |-> <<"u1e8f">>, u1e90 |-> <<"u1e91">>, u1e92 |-> <<"u1e93">>,
      u1e94 |-> <<"u1e95">>, u1e9e |-> <<"u00df">>, u1ea0 |-> <<"u1ea1">>,
      u1ea2 |-> <<"u1ea3">>, u1ea4 |-> <<"u1ea5">>, u1ea6 |-> <<"u1ea7">>,
      u1ea8 |-> <<"u1ea9">>, u1eaa |-> <<"u1eab">>, u1eac |-> <<"u1ead">>,
      u1eae |-> <<"u1eaf">>, u1eb0 |-> <<"u1eb1">>, u1eb2 |-> <<"u1eb3">>,
      u1eb4 |-> <<"u1eb5">>, u1eb6 |-> <<"u1eb7">>, u1eb8 |-> <<"u1eb9">>,
      u1eba |-> <<"u1ebb">>, u1ebc |-> <<"u1ebd">>, u1ebe |-> <<"u1ebf">>,
      u1ec0 |-> <<"u1ec1">>, u1ec2 |-> <<"u1ec3">>, u1ec4 |-> <<"u1ec5">>,
      u1ec6 |-> <<"u1ec7">>, u1ec8 |-> <<"u1ec9">>, u1eca |-> <<"u1ecb">>,
      u1ecc |-> <<"u1ecd">>, u1ece |-> <<"u1ecf">>, u1ed0 |-> <<"u1ed1">>,
      u1ed2 |-> <<"u1ed3">>, u1ed4 |-> <<"u1ed5">>, u1ed6 |-> <<"u1ed7">>,
      u1ed8 |-> <<"u1ed9">>, u1eda |-> <<"u1edb">>, u1edc |-> <<"u1edd">>,
      u1ede |-> <<"u1edf">>, u1ee0 |-> <<"u1ee1">>, u1ee2 |-> <<"u1ee3">>,
      u1ee4 |-> <<"u1ee5">>, u1ee6 |-> <<"u1ee7">>, u1ee8 |-> <<"u1ee9">>,
      u1eea |-> <<"u1eeb">>, u1eec |-> <<"u1eed">>, u1eee |-> <<"u1eef">>,
      u1ef0 |-> <<"u1ef1">>, u1ef2 |-> <<"u1ef3">>, u1ef4 |-> <<"u1ef5">>,
      u1ef6 |-> <<"u1ef7">>, u1ef8 |-> <<"u1ef9">>, u1efa |-> <<"u1efb">>,
      u1efc |-> <<"u1efd">>, u1efe |-> <<"u1eff">>, u1f08 |-> <<"u1f00">>,
      u1f09 |-> <<"u1f01">>, u1f0a |-> <<"u1f02">>, u1f0b |-> <<"u1f03">>,
      u1f0c |-> <<"u1f04">>, u1f0d |-> <<"u1f05">>, u1f0e |-> <<"u1f06">>,
      u1f0f |-> <<"u1f07">>, u1f18 |-> <<"u1f10">>, u1f19 |-> <<"u1f11">>,
      u1f1a |-> <<"u1f12">>, u1f1b |-> <<"u1f13">>, u1f1c |-> <<"u1f14">>,
      u1f1d |-> <<"u1f15">>, u1f28 |-> <<"u1f20">>, u1f29 |-> <<"u1f21">>,
      u1f2a |-> <<"u1f22">>, u1f2b |-> <<"u1f23">>, u1f2c |-> <<"u1f24">>,
      u1f2d |-> <<"u1f25">>, u1f2e |-> <<"u1f26">>, u1f2f |-> <<"u1f27">>,
      u1f38 |-> <<"u1f30">>, u1f39 |-> <<"u1f31">>, u1f3a |-> <<"u1f32">>,
      u1f3b |-> <<"u1f33">>, u1f3c |-> <<"u1f34">>, u1f3d |-> <<"u1f35">>,
      u1f3e |-> <<"u1f36">>, u1f3f |-> <<"u1f37">>, u1f48 |-> <<"u1f40">>,
      u1f49 |-> <<"u1f41">>, u1f4a |-> <<"u1f42">>, u1f4b |-> <<"u1f43">>,
      u1f4c |-> <<"u1f44">>, u1f4d |-> <<"u1f45">>, u1f59 |-> <<"u1f51">>,
      u1f5b |-> <<"u1f53">>, u1f5d |-> <<"u1f55">>, u1f5f |-> <<"u1f57">>,
      u1f68 |-> <<"u1f60">>, u1f69 |-> <<"u1f61">>, u1f6a |-> <<"u1f62">>,
      u1f6b |-> <<"u1f63">>, u1f6c |-> <<"u1f64">>, u1f6d |-> <<"u1f65">>,
      u1f6e |-> <<"u1f66">>, u1f6f |-> <<"u1f67">>, u1f88 |-> <<"u1f80">>,
      u1f89 |-> <<"u1f81">>, u1f8a |-> <<"u1f82">>, u1f8b |-> <<"u1f83">>,
      u1f8c |-> <<"u1f84">>, u1f8d |-> <<"u1f85">>, u1f8e |-> <<"u1f86">>,
      u1f8f |-> <<"u1f87">>, u1f98 |-> <<"u1f90">>, u1f99 |-> <<"u1f91">>,
      u1f9a |-> <<"u1f92">>, u1f9b |-> <<"u1f93">>, u1f9c |-> <<"u1f94">>,
      u1f9d |-> <<"u1f95">>, u1f9e |-> <<"u1f96">>, u1f9f |-> <<"u1f97">>,
      u1fa8 |-> <<"u1fa0">>, u1fa9 |-> <<"u1fa1">>, u1faa |-> <<"u1fa2">>,
      u1fab |-> <<"u1fa3">>, u1fac |-> <<"u1fa4">>, u1fad |-> <<"u1fa5">>,
      u1fae |-> <<"u1fa6">>, u1faf |-> <<"u1fa7">>, u1fb8 |-> <<"u1fb0">>,
      u1fb9 |-> <<"u1fb1">>, u1fba |-> <<"u1f70">>, u1fbb |-> <<"u1f71">>,
      u1fbc |-> <<"u1fb3">>, u1fc8 |-> <<"u1f72">>, u1fc9 |-> <<"u1f73">>,
      u1fca |-> <<"u1f74">>, u1fcb |-> <<"u1f75">>, u1fcc |-> <<"u1fc3">>,
      u1fd8 |-> <<"u1fd0">>, u1fd9 |-> <<"u1fd1">>, u1fda |-> <<"u1f76">>,
      u1fdb |-> <<"u1f77">>, u1fe8 |-> <<"u1fe0">>, u1fe9 |-> <<"u1fe1">>,
      u1fea |-> <<"u1f7a">>, u1feb |-> <<"u1f7b">>, u1fec |-> <<"u1fe5">>,
      u1ff8 |-> <<"u1f78">>, u1ff9 |-> <<"u1f79">>, u1ffa |-> <<"u1f7c">>,
      u1ffb |-> <<"u1f7d">>, u1ffc |-> <<"u1ff3">>, u2126 |-> <<"u03c9">>,
      u212a |-> <<"k">>, u212b |-> <<"u00e5">>, u2132 |-> <<"u214e">>,
      u2160 |-> <<"u2170">>, u2161 |-> <<"u2171">>, u2162 |-> <<"u2172">>,
      u2163 |-> <<"u2173">>, u2164 |-> <<"u2174">>, u2165 |-> <<"u2175">>,
      u2166 |-> <<"u2176">>, u2167 |-> <<"u2177">>, u2168 |-> <<"u2178">>,
      u2169 |-> <<"u2179">>, u216a |-> <<"u217a">>, u216b |-> <<"u217b">>,
      u216c |-> <<"u217c">>, u216d |-> <<"u217d">>, u216e |-> <<"u217e">>,
      u216f |-> <<"u217f">>, u2183 |-> <<"u2184">>, u24b6 |-> <<"u24d0">>,
      u24b7 |-> <<"u24d1">>, u24b8 |-> <<"u24d2">>, u24b9 |-> <<"u24d3">>,
      u24ba |-> <<"u24d4">>, u24bb |-> <<"u24d5">>, u24bc |-> <<"u24d6">>,
      u24bd |-> <<"u24d7">>, u24be |-> <<"u24d8">>, u24bf |-> <<"u24d9">>,
      u24c0 |-> <<"u24da">>, u24c1 |-> <<"u24db">>, u24c2 |-> <<"u24dc">>,
      u24c3 |-> <<"u24dd">>, u24c4 |-> <<"u24de">>, u24c5 |-> <<"u24df">>,
      u24c6 |-> <<"u24e0">>, u24c7 |-> <<"u24e1">>, u24c8 |-> <<"u24e2">>,
      u24c9 |-> <<"u24e3">>, u24ca |-> <<"u24e4">>, u24cb |-> <<"u24e5">>,
      u24cc |-> <<"u24e6">>, u24cd |-> <<"u24e7">>, u24ce |-> <<"u24e8">>,
      u24cf |-> <<"u24e9">>, u2c00 |-> <<"u2c30">>, u2c01 |-> <<"u2c31">>,
      u2c02 |-> <<"u2c32">>, u2c03 |-> <<"u2c33">>, u2c04 |-> <<"u2c34">>,
      u2c05 |-> <<"u2c35">>, u2c06 |-> <<"u2c36">>, u2c07 |-> <<"u2c37">>,
      u2c08 |-> <<"u2c38">>, u2c09 |-> <<"u2c39">>, u2c0a |-> <<"u2c3a">>,
      u2c0b |-> <<"u2c3b">>, u2c0c |-> <<"u2c3c">>, u2c0d |-> <<"u2c3d">>,
      u2c0e |-> <<"u2c3e">>, u2c0f |-> <<"u2c3f">>, u2c10 |-> <<"u2c40">>,
      u2c11 |-> <<"u2c41">>, u2c12 |-> <<"u2c42">>, u2c13 |-> <<"u2c43">>,
      u2c14 |-> <<"u2c44">>, u2c15 |-> <<"u2c45">>, u2c16 |-> <<"u2c46">>,
      u2c17 |-> <<"u2c47">>, u2c18 |-> <<"u2c48">>, u2c19 |-> <<"u2c49">>,
      u2c1a |-> <<"u2c4a">>, u2c1b |-> <<"u2c4b">>, u2c1c |-> <<"u2c4c">>,
      u2c1d |-> <<"u2c4d">>, u2c1e |-> <<"u2c4e">>, u2c1f |-> <<"u2c4f">>,
      u2c20 |-> <<"u2c50">>, u2c21 |-> <<"u2c51">>, u2c22 |-> <<"u2c52">>,
      u2c23 |-> <<"u2c53">>, u2c24 |-> <<"u2c54">>, u2c25 |-> <<"u2c55">>,
      u2c26 |-> <<"u2c56">>, u2c27 |-> <<"u2c57">>, u2c28 |-> <<"u2c58">>,
      u2c29 |-> <<"u2c59">>, u2c2a |-> <<"u2c5a">>, u2c2b |-> <<"u2c5b">>,
      u2c2c |-> <<"u2c5c">>, u2c2d |-> <<"u2c5d">>, u2c2e |-> <<"u2c5e">>,
      u2c2f |-> <<"u2c5f">>, u2c60 |-> <<"u2c61">>, u2c62 |-> <<"u026b">>,
      u2c63 |-> <<"u1d7d">>, u2c64 |-> <<"u027d">>, u2c67 |-> <<"u2c68">>,
      u2c69 |-> <<"u2c6a">>, u2c6b |-> <<"u2c6c">>, u2c6d |-> <<"u0251">>,
      u2c6e |-> <<"u0271">>, u2c6f |-> <<"u0250">>, u2c70 |-> <<"u0252">>,
      u2c72 |-> <<"u2c73">>, u2c75 |-> <<"u2c76">>, u2c7e |-> <<"u023f">>,
      u2c7f |-> <<"u0240">>, u2c80 |-> <<"u2c81">>, u2c82 |-> <<"u2c83">>,
      u2c84 |-> <<"u2c85">>, u2c86 |-> <<"u2c87">>, u2c88 |-> <<"u2c89">>,
      u2c8a |-> <<"u2c8b">>, u2c8c |-> <<"u2c8d">>, u2c8e |-> <<"u2c8f">>,
      u2c90 |-> <<"u2c91">>, u2c92 |-> <<"u2c93">>, u2c94 |-> <<"u2c95">>,
      u2c96 |-> <<"u2c97">>, u2c98 |-> <<"u2c99">>, u2c9a |-> <<"u2c9b">>,
      u2c9c |-> <<"u2c9d">>, u2c9e |-> <<"u2c9f">>, u2ca0 |-> <<"u2ca1">>,
      u2ca2 |-> <<"u2ca3">>, u2ca4 |-> <<"u2ca5">>, u2ca6 |-> <<"u2ca7">>,
      u2ca8 |-> <<"u2ca9">>, u2caa |-> <<"u2cab">>, u2cac |-> <<"u2cad">>,
      u2cae |-> <<"u2caf">>, u2cb0 |-> <<"u2cb1">>, u2cb2 |-> <<"u2cb3">>,
      u2cb4 |-> <<"u2cb5">>, u2cb6 |-> <<"u2cb7">>, u2cb8 |-> <<"u2cb9">>,
      u2cba |-> <<"u2cbb">>, u2cbc |-> <<"u2cbd">>, u2cbe |-> <<"u2cbf">>,
      u2cc0 |-> <<"u2cc1">>, u2cc2 |-> <<"u2cc3">>, u2cc4 |-> <<"u2cc5">>,
      u2cc6 |-> <<"u2cc7">>, u2cc8 |-> <<"u2cc9">>, u2cca |-> <<"u2ccb">>,
      u2ccc |-> <<"u2ccd">>, u2cce |-> <<"u2ccf">>, u2cd0 |-> <<"u2cd1">>,
      u2cd2 |-> <<"u2cd3">>, u2cd4 |-> <<"u2cd5">>, u2cd6 |-> <<"u2cd7">>,
      u2cd8 |-> <<"u2cd9">>, u2cda |-> <<"u2cdb">>, u2cdc |-> <<"u2cdd">>,
      u2cde |-> <<"u2cdf">>, u2ce0 |-> <<"u2ce1">>, u2ce2 |-> <<"u2ce3">>,
      u2ceb |-> <<"u2cec">>, u2ced |-> <<"u2cee">>, u2cf2 |-> <<"u2cf3">>,
      ua640 |-> <<"ua641">>, ua642 |-> <<"ua643">>, ua644 |-> <<"ua645">>,
      ua646 |-> <<"ua647">>, ua648 |-> <<"ua649">>, ua64a |-> <<"ua64b">>,
      ua64c |-> <<"ua64d">>, ua64e |-> <<"ua64f">>, ua650 |-> <<"ua651">>,
      ua652 |-> <<"ua653">>, ua654 |-> <<"ua655">>, ua656 |-> <<"ua657">>,
      ua658 |-> <<"ua659">>, ua65a |-> <<"ua65b">>, ua65c |-> <<"ua65d">>,
      ua65e |-> <<"ua65f">>, ua660 |-> <<"ua661">>, ua662 |-> <<"ua663">>,
      ua664 |-> <<"ua665">>, ua666 |-> <<"ua667">>, ua668 |-> <<"ua669">>,
      ua66a |-> <<"ua66b">>, ua66c |-> <<"ua66d">>, ua680 |-> <<"ua681">>,
      ua682 |-> <<"ua683">>, ua684 |-> <<"ua685">>, ua686 |-> <<"ua687">>,
      ua688 |-> <<"ua689">>, ua68a |-> <<"ua68b">>, ua68c |-> <<"ua68d">>,
      ua68e |-> <<"ua68f">>, ua690 |-> <<"ua691">>, ua692 |-> <<"ua693">>,
      ua694 |-> <<"ua695">>, ua696 |-> <<"ua697">>, ua698 |-> <<"ua699">>,
      ua69a |-> <<"ua69b">>, ua722 |-> <<"ua723">>, ua724 |-> <<"ua725">>,
      ua726 |-> <<"ua727">>, ua728 |-> <<"ua729">>, ua72a |-> <<"ua72b">>,
      ua72c |-> <<"ua72d">>, ua72e |-> <<"ua72f">>, ua732 |-> <<"ua733">>,
      ua734 |-> <<"ua735">>, ua736 |-> <<"ua737">>, ua738 |-> <<"ua739">>,
      ua73a |-> <<"ua73b">>, ua73c |-> <<"ua73d">>, ua73e |-> <<"ua73f">>,
      ua740 |-> <<"ua741">>, ua742 |-> <<"ua743">>, ua744 |-> <<"ua745">>,
      ua746 |-> <<"ua747">>, ua748 |-> <<"ua749">>, ua74a |-> <<"ua74b">>,
      ua74c |-> <<"ua74d">>, ua74e |-> <<"ua74f">>, ua750 |-> <<"ua751">>,
      ua752 |-> <<"ua753">>, ua754 |-> <<"ua755">>, ua756 |-> <<"ua757">>,
      ua758 |-> <<"ua759">>, ua75a |-> <<"ua75b">>, ua75c |-> <<"ua75d">>,
      ua75e |-> <<"ua75f">>, ua760 |-> <<"ua761">>, ua762 |-> <<"ua763">>,
      ua764 |-> <<"ua765">>, ua766 |-> <<"ua767">>, ua768 |-> <<"ua769">>,
      ua76a |-> <<"ua76b">>, ua76c |-> <<"ua76d">>, ua76e |-> <<"ua76f">>,
      ua779 |-> <<"ua77a">>, ua77b |-> <<"ua77c">>, ua77d |-> <<"u1d79">>,
      ua77e |-> <<"ua77f">>, ua780 |-> <<"ua781">>, ua782 |-> <<"ua783">>,
      ua784 |-> <<"ua785">>, ua786 |-> <<"ua787">>, ua78b |-> <<"ua78c">>,
      ua78d |-> <<"u0265">>, ua790 |-> <<"ua791">>, ua792 |-> <<"ua793">>,
      ua796 |-> <<"ua797">>, ua798 |-> <<"ua799">>, ua79a |-> <<"ua79b">>,
      ua79c |-> <<"ua79d">>, ua79e |-> <<"ua79f">>, ua7a0 |-> <<"ua7a1">>,
      ua7a2 |-> <<"ua7a3">>, ua7a4 |-> <<"ua7a5">>, ua7a6 |-> <<"ua7a7">>,
      ua7a8 |-> <<"ua7a9">>, ua7aa |-> <<"u0266">>, ua7ab |-> <<"u025c">>,
      ua7ac |-> <<"u0261">>, ua7ad |-> <<"u026c">>, ua7ae |-> <<"u026a">>,
      ua7b0 |-> <<"u029e">>, ua7b1 |-> <<"u0287">>, ua7b2 |-> <<"u029d">>,
      ua7b3 |-> <<"uab53">>, ua7b4 |-> <<"ua7b5">>, ua7b6 |-> <<"ua7b7">>,
      ua7b8 |-> <<"ua7b9">>, ua7ba |-> <<"ua7bb">>, ua7bc |-> <<"ua7bd">>,
      ua7be |-> <<"ua7bf">>, ua7c0 |-> <<"ua7c1">>, ua7c2 |-> <<"ua7c3">>,
      ua7c4 |-> <<"ua794">>, ua7c5 |-> <<"u0282">>, ua7c6 |-> <<"u1d8e">>,
      ua7c7 |-> <<"ua7c8">>, ua7c9 |-> <<"ua7ca">>, ua7cb |-> <<"u0264">>,
      ua7cc |-> <<"ua7cd">>, ua7ce |-> <<"ua7cf">>, ua7d0 |-> <<"ua7d1">>,
      ua7d2 |-> <<"ua7d3">>, ua7d4 |-> <<"ua7d5">>, ua7d6 |-> <<"ua7d7">>,
      ua7d8 |-> <<"ua7d9">>, ua7da |-> <<"ua7db">>, ua7dc |-> <<"u019b">>,
      ua7f5 |-> <<"ua7f6">>, uff21 |-> <<"uff41">>, uff22 |-> <<"uff42">>,
      uff23 |-> <<"uff43">>, uff24 |-> <<"uff44">>, uff25 |-> <<"uff45">>,
      uff26 |-> <<"uff46">>, uff27 |-> <<"uff47">>, uff28 |-> <<"uff48">>,
      uff29 |-> <<"uff49">>, uff2a |-> <<"uff4a">>, uff2b |-> <<"uff4b">>,
      uff2c |-> <<"uff4c">>, uff2d |-> <<"uff4d">>, uff2e |-> <<"uff4e">>,
      uff2f |-> <<"uff4f">>, uff30 |-> <<"uff50">>, uff31 |-> <<"uff51">>,
      uff32 |-> <<"uff52">>, uff33 |-> <<"uff53">>, uff34 |-> <<"uff54">>,
      uff35 |-> <<"uff55">>, uff36 |-> <<"uff56">>, uff37 |-> <<"uff57">>,
      uff38 |-> <<"uff58">>, uff39 |-> <<"uff59">>, uff3a |-> <<"uff5a">>
     ],
   cased |->
     {
      "A", "B", "C", "D", "E", "F", "G", "H", "I", "J", "K", "L", "M", "N", "O", "P",
      "Q", "R", "S", "T", "U", "V", "W", "X", "Y", "Z", "a", "b", "c", "d", "e", "f",
      "g", "h", "i", "j", "k", "l", "m", "n", "o", "p", "q", "r", "s", "t", "u", "v",
      "w", "x", "y", "z", "u00aa", "u00b5", "u00ba", "u00c0", "u00c1", "u00c2", "u00c3",
      "u00c4", "u00c5", "u00c6", "u00c7", "u00c8", "u00c9", "u00ca", "u00cb", "u00cc",
      "u00cd", "u00ce", "u00cf", "u00d0", "u00d1", "u00d2", "u00d3", "u00d4", "u00d5",
      "u00d6", "u00d8", "u00d9", "u00da", "u00db", "u00dc", "u00dd", "u00de", "u00df",
      "u00e0", "u00e1", "u00e2", "u00e3", "u00e4", "u00e5", "u00e6", "u00e7", "u00e8",
      "u00e9", "u00ea", "u00eb", "u00ec", "u00ed", "u00ee", "u00ef", "u00f0", "u00f1",
      "u00f2", "u00f3", "u00f4", "u00f5", "u00f6", "u00f8", "u00f9", "u00fa", "u00fb",
      "u00fc", "u00fd", "u00fe", "u00ff", "u0100", "u0101", "u0102", "u0103", "u0104",
      "u0105", "u0106", "u0107", "u0108", "u0109", "u010a", "u010b", "u010c", "u010d",
      "u010e", "u010f", "u0110", "u0111", "u0112", "u0113", "u0114", "u0115", "u0116",
      "u0117", "u0118", "u0119", "u011a", "u011b", "u011c", "u011d", "u011e", "u011f",
      "u0120", "u0121", "u0122", "u0123", "u0124", "u0125", "u0126", "u0127", "u0128",
      "u0129", "u012a", "u012b", "u012c", "u012d", "u012e", "u012f", "u0130", "u0131",
      "u0132", "u0133", "u0134", "u0135", "u0136", "u0137", "u0138", "u0139", "u013a",
      "u013b", "u013c", "u013d", "u013e", "u013f", "u0140", "u0141", "u0142", "u0143",
      "u0144", "u0145", "u0146", "u0147", "u0148", "u0149", "u014a", "u014b", "u014c",
      "u014d", "u014e", "u014f", "u0150", "u0151", "u0152", "u0153", "u0154", "u0155",
      "u0156", "u0157", "u0158", "u0159", "u015a", "u015b", "u015c", "u015d", "u015e",
      "u015f", "u0160", "u0161", "u0162", "u0163", "u0164", "u0165", "u0166", "u0167",
      "u0168", "u0169", "u016a", "u016b", "u016c", "u016d", "u016e", "u016f", "u0170",
      "u0171", "u0172", "u0173", "u0174", "u0175", "u0176", "u0177", "u0178", "u0179",
      "u017a", "u017b", "u017c", "u017d", "u017e", "u017f", "u0180", "u0181", "u0182",
      "u0183", "u0184", "u0185", "u0186", "u0187", "u0188", "u0189", "u018a", "u018b",
      "u018c", "u018d", "u018e", "u018f", "u0190", "u0191", "u0192", "u0193", "u0194",
      "u0195", "u0196", "u0197", "u0198", "u0199", "u019a", "u019b", "u019c", "u019d",
      "u019e", "u019f", "u01a0", "u01a1", "u01a2", "u01a3", "u01a4", "u01a5", "u01a6",
      "u01a7", "u01a8", "u01a9", "u01aa", "u01ab", "u01ac", "u01ad", "u01ae", "u01af",
      "u01b0", "u01b1", "u01b2", "u01b3", "u01b4", "u01b5", "u01b6", "u01b7", "u01b8",
      "u01b9", "u01ba", "u01bc", "u01bd", "u01be", "u01bf", "u01c4", "u01c5", "u01c6",
      "u01c7", "u01c8", "u01c9", "u01ca", "u01cb", "u01cc", "u01cd", "u01ce", "u01cf",
      "u01d0", "u01d1", "u01d2", "u01d3", "u01d4", "u01d5", "u01d6", "u01d7", "u01d8",
      "u01d9", "u01da", "u01db", "u01dc", "u01dd", "u01de", "u01df", "u01e0", "u01e1",
      "u01e2", "u01e3", "u01e4", "u01e5", "u01e6", "u01e7", "u01e8", "u01e9", "u01ea",
      "u01eb", "u01ec", "u01ed", "u01ee", "u01ef", "u01f0", "u01f1", "u01f2", "u01f3",
      "u01f4", "u01f5", "u01f6", "u01f7", "u01f8", "u01f9", "u01fa", "u01fb", "u01fc",
      "u01fd", "u01fe", "u01ff", "u0200", "u0201", "u0202", "u0203", "u0204", "u0205",
      "u0206", "u0207", "u0208", "u0209", "u020a", "u020b", "u020c", "u020d", "u020e",
      "u020f", "u0210", "u0211", "u0212", "u0213", "u0214", "u0215", "u0216", "u0217",
      "u0218", "u0219", "u021a", "u021b", "u021c", "u021d", "u021e", "u021f", "u0220",
      "u0221", "u0222", "u0223", "u0224", "u0225", "u0226", "u0227", "u0228", "u0229",
      "u022a", "u022b", "u022c", "u022d", "u022e", "u022f", "u0230", "u0231", "u0232",
      "u0233", "u0234", "u0235", "u0236", "u0237", "u0238", "u0239", "u023a", "u023b",
      "u023c", "u023d", "u023e", "u023f", "u0240", "u0241", "u0242", "u0243", "u0244",
      "u0245", "u0246", "u0247", "u0248", "u0249", "u024a", "u024b", "u024c", "u024d",
      "u024e", "u024f", "u0250", "u0251", "u0252", "u0253", "u0254", "u0255", "u0256",
      "u0257", "u0258", "u0259", "u025a", "u025b", "u025c", "u025d", "u025e", "u025f",
      "u0260", "u0261", "u0262", "u0263", "u0264", "u0265", "u0266", "u0267", "u0268",
      "u0269", "u026a", "u026b", "u026c", "u026d", "u026e", "u026f", "u0270", "u0271",
      "u0272", "u0273", "u0274", "u0275", "u0276", "u0277", "u0278", "u0279", "u027a",
      "u027b", "u027c", "u027d", "u027e", "u027f", "u0280", "u0281", "u0282", "u0283",
      "u0284", "u0285", "u0286", "u0287", "u0288", "u0289", "u028a", "u028b", "u028c",
      "u028d", "u028e", "u028f", "u0290", "u0291", "u0292", "u0293", "u0296",
      "u0297", "u0298", "u0299", "u029a", "u029b", "u029c", "u029d", "u029e", "u029f",
      "u02a0", "u02a1", "u02a2", "u02a3", "u02a4", "u02a5", "u02a6", "u02a7", "u02a8",
      "u02a9", "u02aa", "u02ab", "u02ac", "u02ad", "u02ae", "u02af", "u0370", "u0371",
      "u0372", "u0373", "u0376", "u0377", "u037b", "u037c", "u037d", "u037f", "u0386",
      "u0388", "u0389", "u038a", "u038c", "u038e", "u038f", "u0390", "u0391", "u0392",
      "u0393", "u0394", "u0395", "u0396", "u0397", "u0398", "u0399", "u039a", "u039b",
      "u039c", "u039d", "u039e", "u039f", "u03a0", "u03a1", "u03a3", "u03a4", "u03a5",
      "u03a6", "u03a7", "u03a8", "u03a9", "u03aa", "u03ab", "u03ac", "u03ad", "u03ae",
      "u03af", "u03b0", "u03b1", "u03b2", "u03b3", "u03b4", "u03b5", "u03b6", "u03b7",
      "u03b8", "u03b9", "u03ba", "u03bb", "u03bc", "u03bd", "u03be", "u03bf", "u03c0",
      "u03c1", "u03c2", "u03c3", "u03c4", "u03c5", "u03c6", "u03c7", "u03c8", "u03c9",
      "u03ca", "u03cb", "u03cc", "u03cd", "u03ce", "u03cf", "u03d0", "u03d1", "u03d2",
      "u03d3", "u03d4", "u03d5", "u03d6", "u03d7", "u03d8", "u03d9", "u03da", "u03db",
      "u03dc", "u03dd", "u03de", "u03df", "u03e0", "u03e1", "u03e2", "u03e3", "u03e4",
      "u03e5", "u03e6", "u03e7", "u03e8", "u03e9", "u03ea", "u03eb", "u03ec", "u03ed",
      "u03ee", "u03ef", "u03f0", "u03f1", "u03f2", "u03f3", "u03f4", "u03f5", "u03f7",
      "u03f8", "u03f9", "u03fa", "u03fb", "u03fc", "u03fd", "u03fe", "u03ff", "u0400",
      "u0401", "u0402", "u0403", "u0404", "u0405", "u0406", "u0407", "u0408", "u0409",
      "u040a", "u040b", "u040c", "u040d", "u040e", "u040f", "u0410", "u0411", "u0412",
      "u0413", "u0414", "u0415", "u0416", "u0417", "u0418", "u0419", "u041a", "u041b",
      "u041c", "u041d", "u041e", "u041f", "u0420", "u0421", "u0422", "u0423", "u0424",
      "u0425", "u0426", "u0427", "u0428", "u0429", "u042a", "u042b", "u042c", "u042d",
      "u042e", "u042f", "u0430", "u0431", "u0432", "u0433", "u0434", "u0435", "u0436",
      "u0437", "u0438", "u0439", "u043a", "u043b", "u043c", "u043d", "u043e", "u043f",
      "u0440", "u0441", "u0442", "u0443", "u0444", "u0445", "u0446", "u0447", "u0448",
      "u0449", "u044a", "u044b", "u044c", "u044d", "u044e", "u044f", "u0450", "u0451",
      "u0452", "u0453", "u0454", "u0455", "u0456", "u0457", "u0458", "u0459", "u045a",
      "u045b", "u045c", "u045d", "u045e", "u045f", "u0460", "u0461", "u0462", "u0463",
      "u0464", "u0465", "u0466", "u0467", "u0468", "u0469", "u046a", "u046b", "u046c",
      "u046d", "u046e", "u046f", "u0470", "u0471", "u0472", "u0473", "u0474", "u0475",
      "u0476", "u0477", "u0478", "u0479", "u047a", "u047b", "u047c", "u047d", "u047e",
      "u047f", "u0480", "u0481", "u048a", "u048b", "u048c", "u048d", "u048e", "u048f",
      "u0490", "u0491", "u0492", "u0493", "u0494", "u0495", "u0496", "u0497", "u0498",
      "u0499", "u049a", "u049b", "u049c", "u049d", "u049e", "u049f", "u04a0", "u04a1",
      "u04a2", "u04a3", "u04a4", "u04a5", "u04a6", "u04a7", "u04a8", "u04a9", "u04aa",
      "u04ab", "u04ac", "u04ad", "u04ae", "u04af", "u04b0", "u04b1", "u04b2", "u04b3",
      "u04b4", "u04b5", "u04b6", "u04b7", "u04b8", "u04b9", "u04ba", "u04bb", "u04bc",
      "u04bd", "u04be", "u04bf", "u04c0", "u04c1", "u04c2", "u04c3", "u04c4", "u04c5",
      "u04c6", "u04c7", "u04c8", "u04c9", "u04ca", "u04cb", "u04cc", "u04cd", "u04ce",
      "u04cf", "u04d0", "u04d1", "u04d2", "u04d3", "u04d4", "u04d5", "u04d6", "u04d7",
      "u04d8", "u04d9", "u04da", "u04db", "u04dc", "u04dd", "u04de", "u04df", "u04e0",
      "u04e1", "u04e2", "u04e3", "u04e4", "u04e5", "u04e6", "u04e7", "u04e8", "u04e9",
      "u04ea", "u04eb", "u04ec", "u04ed", "u04ee", "u04ef", "u04f0", "u04f1", "u04f2",
      "u04f3", "u04f4", "u04f5", "u04f6", "u04f7", "u04f8", "u04f9", "u04fa", "u04fb",
      "u04fc", "u04fd", "u04fe", "u04ff", "u0500", "u0501", "u0502", "u0503", "u0504",
      "u0505", "u0506", "u0507", "u0508", "u0509", "u050a", "u050b", "u050c", "u050d",
      "u050e", "u050f", "u0510", "u0511", "u0512", "u0513", "u0514", "u0515", "u0516",
      "u0517", "u0518", "u0519", "u051a", "u051b", "u051c", "u051d", "u051e", "u051f",
      "u0520", "u0521", "u0522", "u0523", "u0524", "u0525", "u0526", "u0527", "u0528",
      "u0529", "u052a", "u052b", "u052c", "u052d", "u052e", "u052f", "u0531", "u0532",
      "u0533", "u0534", "u0535", "u0536", "u0537", "u0538", "u0539", "u053a", "u053b",
      "u053c", "u053d", "u053e", "u053f", "u0540", "u0541", "u0542", "u0543", "u0544",
      "u0545", "u0546", "u0547", "u0548", "u0549", "u054a", "u054b", "u054c", "u054d",
      "u054e", "u054f", "u0550", "u0551", "u0552", "u0553", "u0554", "u0555", "u0556",
      "u0560", "u0561", "u0562", "u0563", "u0564", "u0565", "u0566", "u0567", "u0568",
      "u0569", "u056a", "u056b", "u056c", "u056d", "u056e", "u056f", "u0570", "u0571",
      "u0572", "u0573", "u0574", "u0575", "u0576", "u0577", "u0578", "u0579", "u057a",
      "u057b", "u057c", "u057d", "u057e", "u057f", "u0580", "u0581", "u0582", "u0583",
      "u0584", "u0585", "u0586", "u0587", "u0588", "u10a0", "u10a1", "u10a2", "u10a3",
      "u10a4", "u10a5", "u10a6", "u10a7", "u10a8", "u10a9", "u10aa", "u10ab", "u10ac",
      "u10ad", "u10ae", "u10af", "u10b0", "u10b1", "u10b2", "u10b3", "u10b4", "u10b5",
      "u10b6", "u10b7", "u10b8", "u10b9", "u10ba", "u10bb", "u10bc", "u10bd", "u10be",
      "u10bf", "u10c0", "u10c1", "u10c2", "u10c3", "u10c4", "u10c5", "u10c7", "u10cd",
      "u10d0", "u10d1", "u10d2", "u10d3", "u10d4", "u10d5", "u10d6", "u10d7", "u10d8",
      "u10d9", "u10da", "u10db", "u10dc", "u10dd", "u10de", "u10df", "u10e0", "u10e1",
      "u10e2", "u10e3", "u10e4", "u10e5", "u10e6", "u10e7", "u10e8", "u10e9", "u10ea",
      "u10eb", "u10ec", "u10ed", "u10ee", "u10ef", "u10f0", "u10f1", "u10f2", "u10f3",
      "u10f4", "u10f5", "u10f6", "u10f7", "u10f8", "u10f9", "u10fa", "u10fd", "u10fe",
      "u10ff", "u13a0", "u13a1", "u13a2", "u13a3", "u13a4", "u13a5", "u13a6", "u13a7",
      "u13a8", "u13a9", "u13aa", "u13ab", "u13ac", "u13ad", "u13ae", "u13af", "u13b0",
      "u13b1", "u13b2", "u13b3", "u13b4", "u13b5", "u13b6", "u13b7", "u13b8", "u13b9",
      "u13ba", "u13bb", "u13bc", "u13bd", "u13be", "u13bf", "u13c0", "u13c1", "u13c2",
      "u13c3", "u13c4", "u13c5", "u13c6", "u13c7", "u13c8", "u13c9", "u13ca", "u13cb",
      "u13cc", "u13cd", "u13ce", "u13cf", "u13d0", "u13d1", "u13d2", "u13d3", "u13d4",
      "u13d5", "u13d6", "u13d7", "u13d8", "u13d9", "u13da", "u13db", "u13dc", "u13dd",
      "u13de", "u13df", "u13e0", "u13e1", "u13e2", "u13e3", "u13e4", "u13e5", "u13e6",
      "u13e7", "u13e8", "u13e9", "u13ea", "u13eb", "u13ec", "u13ed", "u13ee", "u13ef",
      "u13f0", "u13f1", "u13f2", "u13f3", "u13f4", "u13f5", "u13f8", "u13f9", "u13fa",
      "u13fb", "u13fc", "u13fd", "u1c80", "u1c81", "u1c82", "u1c83", "u1c84", "u1c85",
      "u1c86", "u1c87", "u1c88", "u1c89", "u1c8a", "u1c90", "u1c91", "u1c92", "u1c93",
      "u1c94", "u1c95", "u1c96", "u1c97", "u1c98", "u1c99", "u1c9a", "u1c9b", "u1c9c",
      "u1c9d", "u1c9e", "u1c9f", "u1ca0", "u1ca1", "u1ca2", "u1ca3", "u1ca4", "u1ca5",
      "u1ca6", "u1ca7", "u1ca8", "u1ca9", "u1caa", "u1cab", "u1cac", "u1cad", "u1cae",
      "u1caf", "u1cb0", "u1cb1", "u1cb2", "u1cb3", "u1cb4", "u1cb5", "u1cb6", "u1cb7",
      "u1cb8", "u1cb9", "u1cba", "u1cbd", "u1cbe", "u1cbf", "u1d00", "u1d01", "u1d02",
      "u1d03", "u1d04", "u1d05", "u1d06", "u1d07", "u1d08", "u1d09", "u1d0a", "u1d0b",
      "u1d0c", "u1d0d", "u1d0e", "u1d0f", "u1d10", "u1d11", "u1d12", "u1d13", "u1d14",
      "u1d15", "u1d16", "u1d17", "u1d18", "u1d19", "u1d1a", "u1d1b", "u1d1c", "u1d1d",
      "u1d1e", "u1d1f", "u1d20", "u1d21", "u1d22", "u1d23", "u1d24", "u1d25", "u1d26",
      "u1d27", "u1d28", "u1d29", "u1d2a", "u1d2b", "u1d6b", "u1d6c", "u1d6d", "u1d6e",
      "u1d6f", "u1d70", "u1d71", "u1d72", "u1d73", "u1d74", "u1d75", "u1d76", "u1d77",
      "u1d79", "u1d7a", "u1d7b", "u1d7c", "u1d7d", "u1d7e", "u1d7f", "u1d80", "u1d81",
      "u1d82", "u1d83", "u1d84", "u1d85", "u1d86", "u1d87", "u1d88", "u1d89", "u1d8a",
      "u1d8b", "u1d8c", "u1d8d", "u1d8e", "u1d8f", "u1d90", "u1d91", "u1d92", "u1d93",
      "u1d94", "u1d95", "u1d96", "u1d97", "u1d98", "u1d99", "u1d9a", "u1e00", "u1e01",
      "u1e02", "u1e03", "u1e04", "u1e05", "u1e06", "u1e07", "u1e08", "u1e09", "u1e0a",
      "u1e0b", "u1e0c", "u1e0d", "u1e0e", "u1e0f", "u1e10", "u1e11", "u1e12", "u1e13",
      "u1e14", "u1e15", "u1e16", "u1e17", "u1e18", "u1e19", "u1e1a", "u1e1b", "u1e1c",
      "u1e1d", "u1e1e", "u1e1f", "u1e20", "u1e21", "u1e22", "u1e23", "u1e24", "u1e25",
      "u1e26", "u1e27", "u1e28", "u1e29", "u1e2a", "u1e2b", "u1e2c", "u1e2d", "u1e2e",
      "u1e2f", "u1e30", "u1e31", "u1e32", "u1e33", "u1e34", "u1e35", "u1e36", "u1e37",
      "u1e38", "u1e39", "u1e3a", "u1e3b", "u1e3c", "u1e3d", "u1e3e", "u1e3f", "u1e40",
      "u1e41", "u1e42", "u1e43", "u1e44", "u1e45", "u1e46", "u1e47", "u1e48", "u1e49",
      "u1e4a", "u1e4b", "u1e4c", "u1e4d", "u1e4e", "u1e4f", "u1e50", "u1e51", "u1e52",
      "u1e53", "u1e54", "u1e55", "u1e56", "u1e57", "u1e58", "u1e59", "u1e5a", "u1e5b",
      "u1e5c", "u1e5d", "u1e5e", "u1e5f", "u1e60", "u1e61", "u1e62", "u1e63", "u1e64",
      "u1e65", "u1e66", "u1e67", "u1e68", "u1e69", "u1e6a", "u1e6b", "u1e6c", "u1e6d",
      "u1e6e", "u1e6f", "u1e70", "u1e71", "u1e72", "u1e73", "u1e74", "u1e75", "u1e76",
      "u1e77", "u1e78", "u1e79", "u1e7a", "u1e7b", "u1e7c", "u1e7d", "u1e7e", "u1e7f",
      "u1e80", "u1e81", "u1e82", "u1e83", "u1e84", "u1e85", "u1e86", "u1e87", "u1e88",
      "u1e89", "u1e8a", "u1e8b", "u1e8c", "u1e8d", "u1e8e", "u1e8f", "u1e90", "u1e91",
      "u1e92", "u1e93", "u1e94", "u1e95", "u1e96", "u1e97", "u1e98", "u1e99", "u1e9a",
      "u1e9b", "u1e9c", "u1e9d", "u1e9e", "u1e9f", "u1ea0", "u1ea1", "u1ea2", "u1ea3",
      "u1ea4", "u1ea5", "u1ea6", "u1ea7", "u1ea8", "u1ea9", "u1eaa", "u1eab", "u1eac",
      "u1ead", "u1eae", "u1eaf", "u1eb0", "u1eb1", "u1eb2", "u1eb3", "u1eb4", "u1eb5",
      "u1eb6", "u1eb7", "u1eb8", "u1eb9", "u1eba", "u1ebb", "u1ebc", "u1ebd", "u1ebe",
      "u1ebf", "u1ec0", "u1ec1", "u1ec2", "u1ec3", "u1ec4", "u1ec5", "u1ec6", "u1ec7",
      "u1ec8", "u1ec9", "u1eca", "u1ecb", "u1ecc", "u1ecd", "u1ece", "u1ecf", "u1ed0",
      "u1ed1", "u1ed2", "u1ed3", "u1ed4", "u1ed5", "u1ed6", "u1ed7", "u1ed8", "u1ed9",
      "u1eda", "u1edb", "u1edc", "u1edd", "u1ede", "u1edf", "u1ee0", "u1ee1", "u1ee2",
      "u1ee3", "u1ee4", "u1ee5", "u1ee6", "u1ee7", "u1ee8", "u1ee9", "u1eea", "u1eeb",
      "u1eec", "u1eed", "u1eee", "u1eef", "u1ef0", "u1ef1", "u1ef2", "u1ef3", "u1ef4",
      "u1ef5", "u1ef6", "u1ef7", "u1ef8", "u1ef9", "u1efa", "u1efb", "u1efc", "u1efd",
      "u1efe", "u1eff", "u1f00", "u1f01", "u1f02", "u1f03", "u1f04", "u1f05", "u1f06",
      "u1f07", "u1f08", "u1f09", "u1f0a", "u1f0b", "u1f0c", "u1f0d", "u1f0e", "u1f0f",
      "u1f10", "u1f11", "u1f12", "u1f13", "u1f14", "u1f15", "u1f18", "u1f19", "u1f1a",
      "u1f1b", "u1f1c", "u1f1d", "u1f20", "u1f21", "u1f22", "u1f23", "u1f24", "u1f25",
      "u1f26", "u1f27", "u1f28", "u1f29", "u1f2a", "u1f2b", "u1f2c", "u1f2d", "u1f2e",
      "u1f2f", "u1f30", "u1f31", "u1f32", "u1f33", "u1f34", "u1f35", "u1f36", "u1f37",
      "u1f38", "u1f39", "u1f3a", "u1f3b", "u1f3c", "u1f3d", "u1f3e", "u1f3f", "u1f40",
      "u1f41", "u1f42", "u1f43", "u1f44", "u1f45", "u1f48", "u1f49", "u1f4a", "u1f4b",
      "u1f4c", "u1f4d", "u1f50", "u1f51", "u1f52", "u1f53", "u1f54", "u1f55", "u1f56",
      "u1f57", "u1f59", "u1f5b", "u1f5d", "u1f5f", "u1f60", "u1f61", "u1f62", "u1f63",
      "u1f64", "u1f65", "u1f66", "u1f67", "u1f68", "u1f69", "u1f6a", "u1f6b", "u1f6c",
      "u1f6d", "u1f6e", "u1f6f", "u1f70", "u1f71", "u1f72", "u1f73", "u1f74", "u1f75",
      "u1f76", "u1f77", "u1f78", "u1f79", "u1f7a", "u1f7b", "u1f7c", "u1f7d", "u1f80",
      "u1f81", "u1f82", "u1f83", "u1f84", "u1f85", "u1f86", "u1f87", "u1f88", "u1f89",
      "u1f8a", "u1f8b", "u1f8c", "u1f8d", "u1f8e", "u1f8f", "u1f90", "u1f91", "u1f92",
      "u1f93", "u1f94", "u1f95", "u1f96", "u1f97", "u1f98", "u1f99", "u1f9a", "u1f9b",
      "u1f9c", "u1f9d", "u1f9e", "u1f9f", "u1fa0", "u1fa1", "u1fa2", "u1fa3", "u1fa4",
      "u1fa5", "u1fa6", "u1fa7", "u1fa8", "u1fa9", "u1faa", "u1fab", "u1fac", "u1fad",
      "u1fae", "u1faf", "u1fb0", "u1fb1", "u1fb2", "u1fb3", "u1fb4", "u1fb6", "u1fb7",
      "u1fb8", "u1fb9", "u1fba", "u1fbb", "u1fbc", "u1fbe", "u1fc2", "u1fc3", "u1fc4",
      "u1fc6", "u1fc7", "u1fc8", "u1fc9", "u1fca", "u1fcb", "u1fcc", "u1fd0", "u1fd1",
      "u1fd2", "u1fd3", "u1fd6", "u1fd7", "u1fd8", "u1fd9", "u1fda", "u1fdb", "u1fe0",
      "u1fe1", "u1fe2", "u1fe3", "u1fe4", "u1fe5", "u1fe6", "u1fe7", "u1fe8", "u1fe9",
      "u1fea", "u1feb", "u1fec", "u1ff2", "u1ff3", "u1ff4", "u1ff6", "u1ff7", "u1ff8",
      "u1ff9", "u1ffa", "u1ffb", "u1ffc", "u2102", "u2107", "u210a", "u210b", "u210c",
      "u210d", "u210e", "u210f", "u2110", "u2111", "u2112", "u2113", "u2115", "u2119",
      "u211a", "u211b", "u211c", "u211d", "u2124", "u2126", "u2128", "u212a", "u212b",
      "u212c", "u212d", "u212f", "u2130", "u2131", "u2132", "u2133", "u2134", "u2139",
      "u213c", "u213d", "u213e", "u213f", "u2145", "u2146", "u2147", "u2148", "u2149",
      "u214e", "u2160", "u2161", "u2162", "u2163", "u2164", "u2165", "u2166", "u2167",
      "u2168", "u2169", "u216a", "u216b", "u216c", "u216d", "u216e", "u216f", "u2170",
      "u2171", "u2172", "u2173", "u2174", "u2175", "u2176", "u2177", "u2178", "u2179",
      "u217a", "u217b", "u217c", "u217d", "u217e", "u217f", "u2183", "u2184", "u24b6",
      "u24b7", "u24b8", "u24b9", "u24ba", "u24bb", "u24bc", "u24bd", "u24be", "u24bf",
      "u24c0", "u24c1", "u24c2", "u24c3", "u24c4", "u24c5", "u24c6", "u24c7", "u24c8",
      "u24c9", "u24ca", "u24cb", "u24cc", "u24cd", "u24ce", "u24cf", "u24d0", "u24d1",
      "u24d2", "u24d3", "u24d4", "u24d5", "u24d6", "u24d7", "u24d8", "u24d9", "u24da",
      "u24db", "u24dc", "u24dd", "u24de", "u24df", "u24e0", "u24e1", "u24e2", "u24e3",
      "u24e4", "u24e5", "u24e6", "u24e7", "u24e8", "u24e9", "u2c00", "u2c01", "u2c02",
      "u2c03", "u2c04", "u2c05", "u2c06", "u2c07", "u2c08", "u2c09", "u2c0a", "u2c0b",
      "u2c0c", "u2c0d", "u2c0e", "u2c0f", "u2c10", "u2c11", "u2c12", "u2c13", "u2c14",
      "u2c15", "u2c16", "u2c17", "u2c18", "u2c19", "u2c1a", "u2c1b", "u2c1c", "u2c1d",
      "u2c1e", "u2c1f", "u2c20", "u2c21", "u2c22", "u2c23", "u2c24", "u2c25", "u2c26",
      "u2c27", "u2c28", "u2c29", "u2c2a", "u2c2b", "u2c2c", "u2c2d", "u2c2e", "u2c2f",
      "u2c30", "u2c31", "u2c32", "u2c33", "u2c34", "u2c35", "u2c36", "u2c37", "u2c38",
      "u2c39", "u2c3a", "u2c3b", "u2c3c", "u2c3d", "u2c3e", "u2c3f", "u2c40", "u2c41",
      "u2c42", "u2c43", "u2c44", "u2c45", "u2c46", "u2c47", "u2c48", "u2c49", "u2c4a",
      "u2c4b", "u2c4c", "u2c4d", "u2c4e", "u2c4f", "u2c50", "u2c51", "u2c52", "u2c53",
      "u2c54", "u2c55", "u2c56", "u2c57", "u2c58", "u2c59", "u2c5a", "u2c5b", "u2c5c",
      "u2c5d", "u2c5e", "u2c5f", "u2c60", "u2c61", "u2c62", "u2c63", "u2c64", "u2c65",
      "u2c66", "u2c67", "u2c68", "u2c69", "u2c6a", "u2c6b", "u2c6c", "u2c6d", "u2c6e",
      "u2c6f", "u2c70", "u2c71", "u2c72", "u2c73", "u2c74", "u2c75", "u2c76", "u2c77",
      "u2c78", "u2c79", "u2c7a", "u2c7b", "u2c7e", "u2c7f", "u2c80", "u2c81", "u2c82",
      "u2c83", "u2c84", "u2c85", "u2c86", "u2c87", "u2c88", "u2c89", "u2c8a", "u2c8b",
      "u2c8c", "u2c8d", "u2c8e", "u2c8f", "u2c90", "u2c91", "u2c92", "u2c93", "u2c94",
      "u2c95", "u2c96", "u2c97", "u2c98", "u2c99", "u2c9a", "u2c9b", "u2c9c", "u2c9d",
      "u2c9e", "u2c9f", "u2ca0", "u2ca1", "u2ca2", "u2ca3", "u2ca4", "u2ca5", "u2ca6",
      "u2ca7", "u2ca8", "u2ca9", "u2caa", "u2cab", "u2cac", "u2cad", "u2cae", "u2caf",
      "u2cb0", "u2cb1", "u2cb2", "u2cb3", "u2cb4", "u2cb5", "u2cb6", "u2cb7", "u2cb8",
      "u2cb9", "u2cba", "u2cbb", "u2cbc", "u2cbd", "u2cbe", "u2cbf", "u2cc0", "u2cc1",
      "u2cc2", "u2cc3", "u2cc4", "u2cc5", "u2cc6", "u2cc7", "u2cc8", "u2cc9", "u2cca",
      "u2ccb", "u2ccc", "u2ccd", "u2cce", "u2ccf", "u2cd0", "u2cd1", "u2cd2", "u2cd3",
      "u2cd4", "u2cd5", "u2cd6", "u2cd7", "u2cd8", "u2cd9", "u2cda", "u2cdb", "u2cdc",
      "u2cdd", "u2cde", "u2cdf", "u2ce0", "u2ce1", "u2ce2", "u2ce3", "u2ce4", "u2ceb",
      "u2cec", "u2ced", "u2cee", "u2cf2", "u2cf3", "u2d00", "u2d01", "u2d02", "u2d03",
      "u2d04", "u2d05", "u2d06", "u2d07", "u2d08", "u2d09", "u2d0a", "u2d0b", "u2d0c",
      "u2d0d", "u2d0e", "u2d0f", "u2d10", "u2d11", "u2d12", "u2d13", "u2d14", "u2d15",
      "u2d16", "u2d17", "u2d18", "u2d19", "u2d1a", "u2d1b", "u2d1c", "u2d1d", "u2d1e",
      "u2d1f", "u2d20", "u2d21", "u2d22", "u2d23", "u2d24", "u2d25", "u2d27", "u2d2d",
      "ua640", "ua641", "ua642", "ua643", "ua644", "ua645", "ua646", "ua647", "ua648",
      "ua649", "ua64a", "ua64b", "ua64c", "ua64d", "ua64e", "ua64f", "ua650", "ua651",
      "ua652", "ua653", "ua654", "ua655", "ua656", "ua657", "ua658", "ua659", "ua65a",
      "ua65b", "ua65c", "ua65d", "ua65e", "ua65f", "ua660", "ua661", "ua662", "ua663",
      "ua664", "ua665", "ua666", "ua667", "ua668", "ua669", "ua66a", "ua66b", "ua66c",
      "ua66d", "ua680", "ua681", "ua682", "ua683", "ua684", "ua685", "ua686", "ua687",
      "ua688", "ua689", "ua68a", "ua68b", "ua68c", "ua68d", "ua68e", "ua68f", "ua690",
      "ua691", "ua692", "ua693", "ua694", "ua695", "ua696", "ua697", "ua698", "ua699",
      "ua69a", "ua69b", "ua722", "ua723", "ua724", "ua725", "ua726", "ua727", "ua728",
      "ua729", "ua72a", "ua72b", "ua72c", "ua72d", "ua72e", "ua72f", "ua730", "ua731",
      "ua732", "ua733", "ua734", "ua735", "ua736", "ua737", "ua738", "ua739", "ua73a",
      "ua73b", "ua73c", "ua73d", "ua73e", "ua73f", "ua740", "ua741", "ua742", "ua743",
      "ua744", "ua745", "ua746", "ua747", "ua748", "ua749", "ua74a", "ua74b", "ua74c",
      "ua74d", "ua74e", "ua74f", "ua750", "ua751", "ua752", "ua753", "ua754", "ua755",
      "ua756", "ua757", "ua758", "ua759", "ua75a", "ua75b", "ua75c", "ua75d", "ua75e",
      "ua75f", "ua760", "ua761", "ua762", "ua763", "ua764", "ua765", "ua766", "ua767",
      "ua768", "ua769", "ua76a", "ua76b", "ua76c", "ua76d", "ua76e", "ua76f", "ua771",
      "ua772", "ua773", "ua774", "ua775", "ua776", "ua777", "ua778", "ua779", "ua77a",
      "ua77b", "ua77c", "ua77d", "ua77e", "ua77f", "ua780", "ua781", "ua782", "ua783",
      "ua784", "ua785", "ua786", "ua787", "ua78b", "ua78c", "ua78d", "ua78e", "ua790",
      "ua791", "ua792", "ua793", "ua794", "ua795", "ua796", "ua797", "ua798", "ua799",
      "ua79a", "ua79b", "ua79c", "ua79d", "ua79e", "ua79f", "ua7a0", "ua7a1", "ua7a2",
      "ua7a3", "ua7a4", "ua7a5", "ua7a6", "ua7a7", "ua7a8", "ua7a9", "ua7aa", "ua7ab",
      "ua7ac", "ua7ad", "ua7ae", "ua7af", "ua7b0", "ua7b1", "ua7b2", "ua7b3", "ua7b4",
      "ua7b5", "ua7b6", "ua7b7", "ua7b8", "ua7b9", "ua7ba", "ua7bb", "ua7bc", "ua7bd",
      "ua7be", "ua7bf", "ua7c0", "ua7c1", "ua7c2", "ua7c3", "ua7c4", "ua7c5", "ua7c6",
      "ua7c7", "ua7c8", "ua7c9", "ua7ca", "ua7cb", "ua7cc", "ua7cd", "ua7ce", "ua7cf",
      "ua7d0", "ua7d1", "ua7d2", "ua7d3", "ua7d4", "ua7d5", "ua7d6", "ua7d7", "ua7d8",
      "ua7d9", "ua7da", "ua7db", "ua7dc", "ua7f5", "ua7f6", "ua7fa", "uab30", "uab31",
      "uab32", "uab33", "uab34", "uab35", "uab36", "uab37", "uab38", "uab39", "uab3a",
      "uab3b", "uab3c", "uab3d", "uab3e", "uab3f", "uab40", "uab41", "uab42", "uab43",
      "uab44", "uab45", "uab46", "uab47", "uab48", "uab49", "uab4a", "uab4b", "uab4c",
      "uab4d", "uab4e", "uab4f", "uab50", "uab51", "uab52", "uab53", "uab54", "uab55",
      "uab56", "uab57", "uab58", "uab59", "uab5a", "uab60", "uab61", "uab62", "uab63",
      "uab64", "uab65", "uab66", "uab67", "uab68", "uab70", "uab71", "uab72", "uab73",
      "uab74", "uab75", "uab76", "uab77", "uab78", "uab79", "uab7a", "uab7b", "uab7c",
      "uab7d", "uab7e", "uab7f", "uab80", "uab81", "uab82", "uab83", "uab84", "uab85",
      "uab86", "uab87", "uab88", "uab89", "uab8a", "uab8b", "uab8c", "uab8d", "uab8e",
      "uab8f", "uab90", "uab91", "uab92", "uab93", "uab94", "uab95", "uab96", "uab97",
      "uab98", "uab99", "uab9a", "uab9b", "uab9c", "uab9d", "uab9e", "uab9f", "uaba0",
      "uaba1", "uaba2", "uaba3", "uaba4", "uaba5", "uaba6", "uaba7", "uaba8", "uaba9",
      "uabaa", "uabab", "uabac", "uabad", "uabae", "uabaf", "uabb0", "uabb1", "uabb2",
      "uabb3", "uabb4", "uabb5", "uabb6", "uabb7", "uabb8", "uabb9", "uabba", "uabbb",
      "uabbc", "uabbd", "uabbe", "uabbf", "ufb00", "ufb01", "ufb02", "ufb03", "ufb04",
      "ufb05", "ufb06", "ufb13", "ufb14", "ufb15", "ufb16", "ufb17", "uff21", "uff22",
      "uff23", "uff24", "uff25", "uff26", "uff27", "uff28", "uff29", "uff2a", "uff2b",
      "uff2c", "uff2d", "uff2e", "uff2f", "uff30", "uff31", "uff32", "uff33", "uff34",
      "uff35", "uff36", "uff37", "uff38", "uff39", "uff3a", "uff41", "uff42", "uff43",
      "uff44", "uff45", "uff46", "uff47", "uff48", "uff49", "uff4a", "uff4b", "uff4c",
      "uff4d", "uff4e", "uff4f", "uff50", "uff51", "uff52", "uff53", "uff54", "uff55",
      "uff56", "uff57", "uff58", "uff59", "uff5a"
     },
   ignorable |->
     {
      "'", ".", ":", "^", "u0060", "u00a8", "u00ad", "u00af", "u00b4", "u00b7", "u00b8",
      "u02b0", "u02b1", "u02b2", "u02b3", "u02b4", "u02b5", "u02b6", "u02b7", "u02b8",
      "u02b9", "u02ba", "u02bb", "u02bc", "u02bd", "u02be", "u02bf", "u02c0", "u02c1",
      "u02c2", "u02c3", "u02c4", "u02c5", "u02c6", "u02c7", "u02c8", "u02c9", "u02ca",
      "u02cb", "u02cc", "u02cd", "u02ce", "u02cf", "u02d0", "u02d1", "u02d2", "u02d3",
      "u02d4", "u02d5", "u02d6", "u02d7", "u02d8", "u02d9", "u02da", "u02db", "u02dc",
      "u02dd", "u02de", "u02df", "u02e0", "u02e1", "u02e2", "u02e3", "u02e4", "u02e5",
      "u02e6", "u02e7", "u02e8", "u02e9", "u02ea", "u02eb", "u02ec", "u02ed", "u02ee",
      "u02ef", "u02f0", "u02f1", "u02f2", "u02f3", "u02f4", "u02f5", "u02f6", "u02f7",
      "u02f8", "u02f9", "u02fa", "u02fb", "u02fc", "u02fd", "u02fe", "u02ff", "u0300",
      "u0301", "u0302", "u0303", "u0304", "u0305", "u0306", "u0307", "u0308", "u0309",
      "u030a", "u030b", "u030c", "u030d", "u030e", "u030f", "u0310", "u0311", "u0312",
      "u0313", "u0314", "u0315", "u0316", "u0317", "u0318", "u0319", "u031a", "u031b",
      "u031c", "u031d", "u031e", "u031f", "u0320", "u0321", "u0322", "u0323", "u0324",
      "u0325", "u0326", "u0327", "u0328", "u0329", "u032a", "u032b", "u032c", "u032d",
      "u032e", "u032f", "u0330", "u0331", "u0332", "u0333", "u0334", "u0335", "u0336",
      "u0337", "u0338", "u0339", "u033a", "u033b", "u033c", "u033d", "u033e", "u033f",
      "u0340", "u0341", "u0342", "u0343", "u0344", "u0345", "u0346", "u0347", "u0348",
      "u0349", "u034a", "u034b", "u034c", "u034d", "u034e", "u034f", "u0350", "u0351",
      "u0352", "u0353", "u0354", "u0355", "u0356", "u0357", "u0358", "u0359", "u035a",
      "u035b", "u035c", "u035d", "u035e", "u035f", "u0360", "u0361", "u0362", "u0363",
      "u0364", "u0365", "u0366", "u0367", "u0368", "u0369", "u036a", "u036b", "u036c",
      "u036d", "u036e", "u036f", "u0374", "u0375", "u037a", "u0384", "u0385", "u0387",
      "u0483", "u0484", "u0485", "u0486", "u0487", "u0488", "u0489", "u0559", "u055f",
      "u0591", "u0592", "u0593", "u0594", "u0595", "u0596", "u0597", "u0598", "u0599",
      "u059a", "u059b", "u059c", "u059d", "u059e", "u059f", "u05a0", "u05a1", "u05a2",
      "u05a3", "u05a4", "u05a5", "u05a6", "u05a7", "u05a8", "u05a9", "u05aa", "u05ab",
      "u05ac", "u05ad", "u05ae", "u05af", "u05b0", "u05b1", "u05b2", "u05b3", "u05b4",
      "u05b5", "u05b6", "u05b7", "u05b8", "u05b9", "u05ba", "u05bb", "u05bc", "u05bd",
      "u05bf", "u05c1", "u05c2", "u05c4", "u05c5", "u05c7", "u05f4", "u0600", "u0601",
      "u0602", "u0603", "u0604", "u0605", "u0610", "u0611", "u0612", "u0613", "u0614",
      "u0615", "u0616", "u0617", "u0618", "u0619", "u061a", "u061c", "u0640", "u064b",
      "u064c", "u064d", "u064e", "u064f", "u0650", "u0651", "u0652", "u0653", "u0654",
      "u0655", "u0656", "u0657", "u0658", "u0659", "u065a", "u065b", "u065c", "u065d",
      "u065e", "u065f", "u0670", "u06d6", "u06d7", "u06d8", "u06d9", "u06da", "u06db",
      "u06dc", "u06dd", "u06df", "u06e0", "u06e1", "u06e2", "u06e3", "u06e4", "u06e5",
      "u06e6", "u06e7", "u06e8", "u06ea", "u06eb", "u06ec", "u06ed", "u070f", "u0711",
      "u0730", "u0731", "u0732", "u0733", "u0734", "u0735", "u0736", "u0737", "u0738",
      "u0739", "u073a", "u073b", "u073c", "u073d", "u073e", "u073f", "u0740", "u0741",
      "u0742", "u0743", "u0744", "u0745", "u0746", "u0747", "u0748", "u0749", "u074a",
      "u07a6", "u07a7", "u07a8", "u07a9", "u07aa", "u07ab", "u07ac", "u07ad", "u07ae",
      "u07af", "u07b0", "u07eb", "u07ec", "u07ed", "u07ee", "u07ef", "u07f0", "u07f1",
      "u07f2", "u07f3", "u07f4", "u07f5", "u07fa", "u07fd", "u0816", "u0817", "u0818",
      "u0819", "u081a", "u081b", "u081c", "u081d", "u081e", "u081f", "u0820", "u0821",
      "u0822", "u0823", "u0824", "u0825", "u0826", "u0827", "u0828", "u0829", "u082a",
      "u082b", "u082c", "u082d", "u0859", "u085a", "u085b", "u0888", "u0890", "u0891",
      "u0897", "u0898", "u0899", "u089a", "u089b", "u089c", "u089d", "u089e", "u089f",
      "u08c9", "u08ca", "u08cb", "u08cc", "u08cd", "u08ce", "u08cf", "u08d0", "u08d1",
      "u08d2", "u08d3", "u08d4", "u08d5", "u08d6", "u08d7", "u08d8", "u08d9", "u08da",
      "u08db", "u08dc", "u08dd", "u08de", "u08df", "u08e0", "u08e1", "u08e2", "u08e3",
      "u08e4", "u08e5", "u08e6", "u08e7", "u08e8", "u08e9", "u08ea", "u08eb", "u08ec",
      "u08ed", "u08ee", "u08ef", "u08f0", "u08f1", "u08f2", "u08f3", "u08f4", "u08f5",
      "u08f6", "u08f7", "u08f8", "u08f9", "u08fa", "u08fb", "u08fc", "u08fd", "u08fe",
      "u08ff", "u0900", "u0901", "u0902", "u093a", "u093c", "u0941", "u0942", "u0943",
      "u0944", "u0945", "u0946", "u0947", "u0948", "u094d", "u0951", "u0952", "u0953",
      "u0954", "u0955", "u0956", "u0957", "u0962", "u0963", "u0971", "u0981", "u09bc",
      "u09c1", "u09c2", "u09c3", "u09c4", "u09cd", "u09e2", "u09e3", "u09fe", "u0a01",
      "u0a02", "u0a3c", "u0a41", "u0a42", "u0a47", "u0a48", "u0a4b", "u0a4c", "u0a4d",
      "u0a51", "u0a70", "u0a71", "u0a75", "u0a81", "u0a82", "u0abc", "u0ac1", "u0ac2",
      "u0ac3", "u0ac4", "u0ac5", "u0ac7", "u0ac8", "u0acd", "u0ae2", "u0ae3", "u0afa",
      "u0afb", "u0afc", "u0afd", "u0afe", "u0aff", "u0b01", "u0b3c", "u0b3f", "u0b41",
      "u0b42", "u0b43", "u0b44", "u0b4d", "u0b55", "u0b56", "u0b62", "u0b63", "u0b82",
      "u0bc0", "u0bcd", "u0c00", "u0c04", "u0c3c", "u0c3e", "u0c3f", "u0c40", "u0c46",
      "u0c47", "u0c48", "u0c4a", "u0c4b", "u0c4c", "u0c4d", "u0c55", "u0c56", "u0c62",
      "u0c63", "u0c81", "u0cbc", "u0cbf", "u0cc6", "u0ccc", "u0ccd", "u0ce2", "u0ce3",
      "u0d00", "u0d01", "u0d3b", "u0d3c", "u0d41", "u0d42", "u0d43", "u0d44", "u0d4d",
      "u0d62", "u0d63", "u0d81", "u0dca", "u0dd2", "u0dd3", "u0dd4", "u0dd6", "u0e31",
      "u0e34", "u0e35", "u0e36", "u0e37", "u0e38", "u0e39", "u0e3a", "u0e46", "u0e47",
      "u0e48", "u0e49", "u0e4a", "u0e4b", "u0e4c", "u0e4d", "u0e4e", "u0eb1", "u0eb4",
      "u0eb5", "u0eb6", "u0eb7", "u0eb8", "u0eb9", "u0eba", "u0ebb", "u0ebc", "u0ec6",
      "u0ec8", "u0ec9", "u0eca", "u0ecb", "u0ecc", "u0ecd", "u0ece", "u0f18", "u0f19",
      "u0f35", "u0f37", "u0f39", "u0f71", "u0f72", "u0f73", "u0f74", "u0f75", "u0f76",
      "u0f77", "u0f78", "u0f79", "u0f7a", "u0f7b", "u0f7c", "u0f7d", "u0f7e", "u0f80",
      "u0f81", "u0f82", "u0f83", "u0f84", "u0f86", "u0f87", "u0f8d", "u0f8e", "u0f8f",
      "u0f90", "u0f91", "u0f92", "u0f93", "u0f94", "u0f95", "u0f96", "u0f97", "u0f99",
      "u0f9a", "u0f9b", "u0f9c", "u0f9d", "u0f9e", "u0f9f", "u0fa0", "u0fa1", "u0fa2",
      "u0fa3", "u0fa4", "u0fa5", "u0fa6", "u0fa7", "u0fa8", "u0fa9", "u0faa", "u0fab",
      "u0fac", "u0fad", "u0fae", "u0faf", "u0fb0", "u0fb1", "u0fb2", "u0fb3", "u0fb4",
      "u0fb5", "u0fb6", "u0fb7", "u0fb8", "u0fb9", "u0fba", "u0fbb", "u0fbc", "u0fc6",
      "u102d", "u102e", "u102f", "u1030", "u1032", "u1033", "u1034", "u1035", "u1036",
      "u1037", "u1039", "u103a", "u103d", "u103e", "u1058", "u1059", "u105e", "u105f",
      "u1060", "u1071", "u1072", "u1073", "u1074", "u1082", "u1085", "u1086", "u108d",
      "u109d", "u10fc", "u135d", "u135e", "u135f", "u1712", "u1713", "u1714", "u1732",
      "u1733", "u1752", "u1753", "u1772", "u1773", "u17b4", "u17b5", "u17b7", "u17b8",
      "u17b9", "u17ba", "u17bb", "u17bc", "u17bd", "u17c6", "u17c9", "u17ca", "u17cb",
      "u17cc", "u17cd", "u17ce", "u17cf", "u17d0", "u17d1", "u17d2", "u17d3", "u17d7",
      "u17dd", "u180b", "u180c", "u180d", "u180e", "u180f", "u1843", "u1885", "u1886",
      "u18a9", "u1920", "u1921", "u1922", "u1927", "u1928", "u1932", "u1939", "u193a",
      "u193b", "u1a17", "u1a18", "u1a1b", "u1a56", "u1a58", "u1a59", "u1a5a", "u1a5b",
      "u1a5c", "u1a5d", "u1a5e", "u1a60", "u1a62", "u1a65", "u1a66", "u1a67", "u1a68",
      "u1a69", "u1a6a", "u1a6b", "u1a6c", "u1a73", "u1a74", "u1a75", "u1a76", "u1a77",
      "u1a78", "u1a79", "u1a7a", "u1a7b", "u1a7c", "u1a7f", "u1aa7", "u1ab0", "u1ab1",
      "u1ab2", "u1ab3", "u1ab4", "u1ab5", "u1ab6", "u1ab7", "u1ab8", "u1ab9", "u1aba",
      "u1abb", "u1abc", "u1abd", "u1abe", "u1abf", "u1ac0", "u1ac1", "u1ac2", "u1ac3",
      "u1ac4", "u1ac5", "u1ac6", "u1ac7", "u1ac8", "u1ac9", "u1aca", "u1acb", "u1acc",
      "u1acd", "u1ace", "u1acf", "u1ad0", "u1ad1", "u1ad2", "u1ad3", "u1ad4", "u1ad5",
      "u1ad6", "u1ad7", "u1ad8", "u1ad9", "u1ada", "u1adb", "u1adc", "u1add", "u1ae0",
      "u1ae1", "u1ae2", "u1ae3", "u1ae4", "u1ae5", "u1ae6", "u1ae7", "u1ae8", "u1ae9",
      "u1aea", "u1aeb", "u1b00", "u1b01", "u1b02", "u1b03", "u1b34", "u1b36", "u1b37",
      "u1b38", "u1b39", "u1b3a", "u1b3c", "u1b42", "u1b6b", "u1b6c", "u1b6d", "u1b6e",
      "u1b6f", "u1b70", "u1b71", "u1b72", "u1b73", "u1b80", "u1b81", "u1ba2", "u1ba3",
      "u1ba4", "u1ba5", "u1ba8", "u1ba9", "u1bab", "u1bac", "u1bad", "u1be6", "u1be8",
      "u1be9", "u1bed", "u1bef", "u1bf0", "u1bf1", "u1c2c", "u1c2d", "u1c2e", "u1c2f",
      "u1c30", "u1c31", "u1c32", "u1c33", "u1c36", "u1c37", "u1c78", "u1c79", "u1c7a",
      "u1c7b", "u1c7c", "u1c7d", "u1cd0", "u1cd1", "u1cd2", "u1cd4", "u1cd5", "u1cd6",
      "u1cd7", "u1cd8", "u1cd9", "u1cda", "u1cdb", "u1cdc", "u1cdd", "u1cde", "u1cdf",
      "u1ce0", "u1ce2", "u1ce3", "u1ce4", "u1ce5", "u1ce6", "u1ce7", "u1ce8", "u1ced",
      "u1cf4", "u1cf8", "u1cf9", "u1d2c", "u1d2d", "u1d2e", "u1d2f", "u1d30", "u1d31",
      "u1d32", "u1d33", "u1d34", "u1d35", "u1d36", "u1d37", "u1d38", "u1d39", "u1d3a",
      "u1d3b", "u1d3c", "u1d3d", "u1d3e", "u1d3f", "u1d40", "u1d41", "u1d42", "u1d43",
      "u1d44", "u1d45", "u1d46", "u1d47", "u1d48", "u1d49", "u1d4a", "u1d4b", "u1d4c",
      "u1d4d", "u1d4e", "u1d4f", "u1d50", "u1d51", "u1d52", "u1d53", "u1d54", "u1d55",
      "u1d56", "u1d57", "u1d58", "u1d59", "u1d5a", "u1d5b", "u1d5c", "u1d5d", "u1d5e",
      "u1d5f", "u1d60", "u1d61", "u1d62", "u1d63", "u1d64", "u1d65", "u1d66", "u1d67",
      "u1d68", "u1d69", "u1d6a", "u1d78", "u1d9b", "u1d9c", "u1d9d", "u1d9e", "u1d9f",
      "u1da0", "u1da1", "u1da2", "u1da3", "u1da4", "u1da5", "u1da6", "u1da7", "u1da8",
      "u1da9", "u1daa", "u1dab", "u1dac", "u1dad", "u1dae", "u1daf", "u1db0", "u1db1",
      "u1db2", "u1db3", "u1db4", "u1db5", "u1db6", "u1db7", "u1db8", "u1db9", "u1dba",
      "u1dbb", "u1dbc", "u1dbd", "u1dbe", "u1dbf", "u1dc0", "u1dc1", "u1dc2", "u1dc3",
      "u1dc4", "u1dc5", "u1dc6", "u1dc7", "u1dc8", "u1dc9", "u1dca", "u1dcb", "u1dcc",
      "u1dcd", "u1dce", "u1dcf", "u1dd0", "u1dd1", "u1dd2", "u1dd3", "u1dd4", "u1dd5",
      "u1dd6", "u1dd7", "u1dd8", "u1dd9", "u1dda", "u1ddb", "u1ddc", "u1ddd", "u1dde",
      "u1ddf", "u1de0", "u1de1", "u1de2", "u1de3", "u1de4", "u1de5", "u1de6", "u1de7",
      "u1de8", "u1de9", "u1dea", "u1deb", "u1dec", "u1ded", "u1dee", "u1def", "u1df0",
      "u1df1", "u1df2", "u1df3", "u1df4", "u1df5", "u1df6", "u1df7", "u1df8", "u1df9",
      "u1dfa", "u1dfb", "u1dfc", "u1dfd", "u1dfe", "u1dff", "u1fbd", "u1fbf", "u1fc0",
      "u1fc1", "u1fcd", "u1fce", "u1fcf", "u1fdd", "u1fde", "u1fdf", "u1fed", "u1fee",
      "u1fef", "u1ffd", "u1ffe", "u200b", "u200c", "u200d", "u200e", "u200f", "u2018",
      "u2019", "u2024", "u2027", "u202a", "u202b", "u202c", "u202d", "u202e", "u2060",
      "u2061", "u2062", "u2063", "u2064", "u2066", "u2067", "u2068", "u2069", "u206a",
      "u206b", "u206c", "u206d", "u206e", "u206f", "u2071", "u207f", "u2090", "u2091",
      "u2092", "u2093", "u2094", "u2095", "u2096", "u2097", "u2098", "u2099", "u209a",
      "u209b", "u209c", "u20d0", "u20d1", "u20d2", "u20d3", "u20d4", "u20d5", "u20d6",
      "u20d7", "u20d8", "u20d9", "u20da", "u20db", "u20dc", "u20dd", "u20de", "u20df",
      "u20e0", "u20e1", "u20e2", "u20e3", "u20e4", "u20e5", "u20e6", "u20e7", "u20e8",
      "u20e9", "u20ea", "u20eb", "u20ec", "u20ed", "u20ee", "u20ef", "u20f0", "u2c7c",
      "u2c7d", "u2cef", "u2cf0", "u2cf1", "u2d6f", "u2d7f", "u2de0", "u2de1", "u2de2",
      "u2de3", "u2de4", "u2de5", "u2de6", "u2de7", "u2de8", "u2de9", "u2dea", "u2deb",
      "u2dec", "u2ded", "u2dee", "u2def", "u2df0", "u2df1", "u2df2", "u2df3", "u2df4",
      "u2df5", "u2df6", "u2df7", "u2df8", "u2df9", "u2dfa", "u2dfb", "u2dfc", "u2dfd",
      "u2dfe", "u2dff", "u2e2f", "u3005", "u302a", "u302b", "u302c", "u302d", "u3031",
      "u3032", "u3033", "u3034", "u3035", "u303b", "u3099", "u309a", "u309b", "u309c",
      "u309d", "u309e", "u30fc", "u30fd", "u30fe", "ua015", "ua4f8", "ua4f9", "ua4fa",
      "ua4fb", "ua4fc", "ua4fd", "ua60c", "ua66f", "ua670", "ua671", "ua672", "ua674",
      "ua675", "ua676", "ua677", "ua678", "ua679", "ua67a", "ua67b", "ua67c", "ua67d",
      "ua67f", "ua69c", "ua69d", "ua69e", "ua69f", "ua6f0", "ua6f1", "ua700", "ua701",
      "ua702", "ua703", "ua704", "ua705", "ua706", "ua707", "ua708", "ua709", "ua70a",
      "ua70b", "ua70c", "ua70d", "ua70e", "ua70f", "ua710", "ua711", "ua712", "ua713",
      "ua714", "ua715", "ua716", "ua717", "ua718", "ua719", "ua71a", "ua71b", "ua71c",
      "ua71d", "ua71e", "ua71f", "ua720", "ua721", "ua770", "ua788", "ua789", "ua78a",
      "ua7f1", "ua7f2", "ua7f3", "ua7f4", "ua7f8", "ua7f9", "ua802", "ua806", "ua80b",
      "ua825", "ua826", "ua82c", "ua8c4", "ua8c5", "ua8e0", "ua8e1", "ua8e2", "ua8e3",
      "ua8e4", "ua8e5", "ua8e6", "ua8e7", "ua8e8", "ua8e9", "ua8ea", "ua8eb", "ua8ec",
      "ua8ed", "ua8ee", "ua8ef", "ua8f0", "ua8f1", "ua8ff", "ua926", "ua927", "ua928",
      "ua929", "ua92a", "ua92b", "ua92c", "ua92d", "ua947", "ua948", "ua949", "ua94a",
      "ua94b", "ua94c", "ua94d", "ua94e", "ua94f", "ua950", "ua951", "ua980", "ua981",
      "ua982", "ua9b3", "ua9b6", "ua9b7", "ua9b8", "ua9b9", "ua9bc", "ua9bd", "ua9cf",
      "ua9e5", "ua9e6", "uaa29", "uaa2a", "uaa2b", "uaa2c", "uaa2d", "uaa2e", "uaa31",
      "uaa32", "uaa35", "uaa36", "uaa43", "uaa4c", "uaa70", "uaa7c", "uaab0", "uaab2",
      "uaab3", "uaab4", "uaab7", "uaab8", "uaabe", "uaabf", "uaac1", "uaadd", "uaaec",
      "uaaed", "uaaf3", "uaaf4", "uaaf6", "uab5b", "uab5c", "uab5d", "uab5e", "uab5f",
      "uab69", "uab6a", "uab6b", "uabe5", "uabe8", "uabed", "ufb1e", "ufbb2", "ufbb3",
      "ufbb4", "ufbb5", "ufbb6", "ufbb7", "ufbb8", "ufbb9", "ufbba", "ufbbb", "ufbbc",
      "ufbbd", "ufbbe", "ufbbf", "ufbc0", "ufbc1", "ufbc2", "ufe00", "ufe01", "ufe02",
      "ufe03", "ufe04", "ufe05", "ufe06", "ufe07", "ufe08", "ufe09", "ufe0a", "ufe0b",
      "ufe0c", "ufe0d", "ufe0e", "ufe0f", "ufe13", "ufe20", "ufe21", "ufe22", "ufe23",
      "ufe24", "ufe25", "ufe26", "ufe27", "ufe28", "ufe29", "ufe2a", "ufe2b", "ufe2c",
      "ufe2d", "ufe2e", "ufe2f", "ufe52", "ufe55", "ufeff", "uff07", "uff0e", "uff1a",
      "uff3e", "uff40", "uff70", "uff9e", "uff9f", "uffe3", "ufff9", "ufffa", "ufffb"
     }]

\* toLowerCase on one character alone
ToLower(c) == IF c \in DOMAIN Case.lower THEN Case.lower[c] ELSE <<c>>

\* s.toLowerCase(): every character by its mapping; a capital sigma that ends
\* a word (a cased letter before it, none after it, case-ignorable characters
\* skipped) becomes the final sigma U+03C2.
toLowerCase(s) ==
  LET Before(i) == \E j \in 1..(i - 1) :
                     /\ s[j] \in Case.cased
                     /\ \A k \in (j + 1)..(i - 1) : s[k] \in Case.ignorable
      After(i) == \E j \in (i + 1)..Len(s) :
                    /\ s[j] \in Case.cased
                    /\ \A k \in (i + 1)..(j - 1) : s[k] \in Case.ignorable
      At(i) == IF s[i] = "u03a3" /\ Before(i) /\ ~After(i) THEN <<"u03c2">>
               ELSE ToLower(s[i])
      RECURSIVE UpTo(_)
      UpTo(i) == IF i = 0 THEN <<>> ELSE UpTo(i - 1) \o At(i)
  IN UpTo(Len(s))

\* hay.includes(needle)
Includes(hay, needle) ==
  \E i \in 0..(Len(hay) - Len(needle)) : Slice(hay, i, i + Len(needle)) = needle

\* lines.join("\n")
RECURSIVE Join(_)
Join(lines) ==
  IF lines = <<>> THEN <<>>
  ELSE IF Len(lines) = 1 THEN lines[1]
       ELSE lines[1] \o <<"\n">> \o Join(Tail(lines))

\* .map((v) => `${v.lineNo}| ${v.text}`)
HeadLines(first) ==
  [i \in 1..Len(first) |-> <<ToString(first[i].lineNo), "|", " ">> \o first[i].text]

\* vis.slice(0, Math.min(12, vis.length)).map(v => `${v.lineNo}| ${v.text}`).join("\n")
HeadListing(vis) == Join(HeadLines(Slice(vis, 0, Min2(12, Len(vis)))))

\* getState once vis is computed.
StateOf(p, vis, includeVisual) ==
  [paper_rev |-> p.rev, cols |-> p.cols, text |-> p.text, lineCount |-> Len(vis),
   head |-> HeadListing(vis), diff |-> p.diff,
   visual |-> IF includeVisual
              THEN Some([i \in 1..Len(vis) |-> [lineNo |-> vis[i].lineNo,
                                                 text |-> vis[i].text]])
              ELSE Null]

getState(p, includeVisual) == StateOf(p, getVisualLines(p), includeVisual)

\* clearDiff counting as a revision.
clearDiff_Bumps(p) == [p EXCEPT !.diff = Null, !.rev = p.rev + 1]

clearDiff(p) == [p EXCEPT !.diff = Null]

\* hits.push({ line: v.lineNo, text: v.text })
Hits(hitLines) ==
  [i \in 1..Len(hitLines) |-> [line |-> hitLines[i].lineNo, text |-> hitLines[i].text]]

\* search once q and vis are computed.
SearchIn(p, q, vis, topK) ==
  IF q = <<>>
  THEN [kind |-> "head", rev |-> p.rev, lineCount |-> Len(vis),
        head |-> HeadListing(vis)]
  ELSE [kind |-> "hits", rev |-> p.rev, query |-> q,
        hits |-> Slice(Hits(SelectSeq(vis, LAMBDA v : Includes(toLowerCase(v.text), q))),
                       0, topK)]

search(p, query, topK) == SearchIn(p, toLowerCase(Trim(query)), getVisualLines(p), topK)

\* .map((v) => ({ line: v.lineNo, text: v.text, start: v.start, end: v.end }))
ReadLines(part) ==
  [i \in 1..Len(part) |-> [line |-> part[i].lineNo, text |-> part[i].text,
                           start |-> part[i].start, end |-> part[i].end]]

\* read once vis is computed, swapping reversed bounds as clear_range does.
ReadIn_Swapping(p, vis, startLine, endLine) ==
  LET s0 == ClampLine(startLine, Num(1), Len(vis))
      e0 == MathMax(Num(1), MathMin(NumberOr(endLine, s0), Len(vis)))
      s == IF Twice(e0) < Twice(s0) THEN e0 ELSE s0
      e == IF Twice(e0) < Twice(s0) THEN s0 ELSE e0
  IN [rev |-> p.rev, startLine |-> Js(s), endLine |-> Js(e),
      lines |-> ReadLines(Slice(vis, s.v - 1, e.v))]

\* read once vis is computed; vis.slice(s - 1, e) drops the fraction of a
\* bound that has one.
ReadIn(p, vis, startLine, endLine) ==
  LET s == ClampLine(startLine, Num(1), Len(vis))
      e == MathMax(s, MathMin(NumberOr(endLine, s), Len(vis)))
  IN [rev |-> p.rev, startLine |-> Js(s), endLine |-> Js(e),
      lines |-> ReadLines(Slice(vis, s.v - 1, e.v))]

read(p, startLine, endLine) == ReadIn(p, getVisualLines(p), startLine, endLine)

\* return { ...r, op }, when _writeReplaceInternal returned r
WithOp(r, op) ==
  IF r.out = TypeError THEN r ELSE
  [paper |-> r.paper,
   out |-> [ok |-> r.out.ok, anchorLine |-> r.out.anchorLine,
            removedText |-> r.out.removedText, removedLines |-> r.out.removedLines,
            paper_rev |-> r.out.paper_rev, highlightLines |-> r.out.highlightLines,
            op |-> op]]

write_replace(p, anchorLine, newText) ==
  WithOp(writeReplaceInternal(p, anchorLine, newText), "write_replace")

\* The rejected append counting as a revision.
EmptyAppend_Bumps(p) ==
  [paper |-> [p EXCEPT !.rev = p.rev + 1],
   out |-> [ok |-> FALSE, op |-> "write_append", reason |-> "empty_text",
            paper_rev |-> p.rev + 1]]

\* if (!ins) return { ok: false, op: "write_append", reason: "empty_text", ... }
EmptyAppend(p) ==
  [paper |-> p,
   out |-> [ok |-> FALSE, op |-> "write_append", reason |-> "empty_text",
            paper_rev |-> p.rev]]

\* write_append from _setDiff on, given the paper p1 after the append.
AppendResult(p1, beforeLines, highlightLines) ==
  [paper |-> setDiff(p1, Num(Max2(1, beforeLines)), Null, Null, highlightLines),
   out |-> [ok |-> TRUE, op |-> "write_append", paper_rev |-> p1.rev,
            highlightLines |-> highlightLines]]

\* The append with a newline before ins whatever needsNL says.
Appended_AlwaysNL(p, needsNL, ins) ==
  [p EXCEPT !.text = p.text \o <<"\n">> \o ins, !.rev = p.rev + 1]

\* paper.text = paper.text + (needsNL ? "\n" : "") + ins; paper.rev++
Appended(p, needsNL, ins) ==
  [p EXCEPT !.text = p.text \o (IF needsNL THEN <<"\n">> ELSE <<>>) \o ins,
            !.rev = p.rev + 1]

\* write_append once beforeVis.length and ins are computed.
AppendIn(p, beforeLines, ins, ensureNewParagraph) ==
  LET beforeLen == Len(p.text)
      needsNL == ensureNewParagraph /\ Len(p.text) > 0 /\ p.text[Len(p.text)] # "\n"
      absStart == beforeLen + (IF needsNL THEN 1 ELSE 0)
      absEnd == absStart + Len(ins)
  IN IF ins = <<>>
     THEN EmptyAppend(p)
     ELSE AppendResult(Appended(p, needsNL, ins), beforeLines,
                       computeHighlightLinesByAbsRange(
                         getVisualLines(Appended(p, needsNL, ins)), absStart, absEnd))

write_append(p, text, ensureNewParagraph) ==
  AppendIn(p, Len(getVisualLines(p)), Trim(text), ensureNewParagraph)

\* return { ...r, op: "clear_line", clearedLine: r.anchorLine }
WithClearedLine(r) ==
  IF r.out = TypeError THEN r ELSE
  [paper |-> r.paper,
   out |-> [ok |-> r.out.ok, anchorLine |-> r.out.anchorLine,
            removedText |-> r.out.removedText, removedLines |-> r.out.removedLines,
            paper_rev |-> r.out.paper_rev, highlightLines |-> r.out.highlightLines,
            op |-> "clear_line", clearedLine |-> r.out.anchorLine]]

clear_line(p, line) == WithClearedLine(writeReplaceInternal(p, line, <<>>))

\* beforeNow[Math.max(0, Math.min(L, beforeNow.length) - 1)]?.text || "": an
\* index that is no whole number finds nothing
OldTextAt(beforeNow, L) ==
  LET i == MathMin(L, Len(beforeNow)) IN
  IF i.k = "half" THEN <<>> ELSE beforeNow[Max2(0, i.v - 1) + 1].text

RECURSIVE ClearRangeLoop(_, _)

\* The end of one round on the loop's variables v: removedTopDown.unshift(oldText),
\* applied.push(...), L--; r.paper is the paper _writeReplaceInternal left. The
\* loop is left when _writeReplaceInternal raises.
ClearRangeStep(v, s, oldText, r) ==
  IF r.out = TypeError THEN [v EXCEPT !.threw = TRUE]
  ELSE ClearRangeLoop([paper |-> r.paper, L |-> [v.L EXCEPT !.v = @ - 1],
                       removedTopDown |-> <<oldText>> \o v.removedTopDown,
                       applied |-> Append(v.applied, [line |-> r.out.anchorLine,
                                                      removedLines |-> r.out.removedLines,
                                                      paper_rev |-> r.out.paper_rev]),
                       threw |-> FALSE],
                      s)

\* for (let L = e; L >= s; L--) { ... } on the loop's variables
\* v = [paper, L, removedTopDown, applied]: the variables it leaves.
ClearRangeLoop(v, s) ==
  IF Twice(v.L) < Twice(s) THEN v
  ELSE ClearRangeStep(v, s, OldTextAt(getVisualLines(v.paper), v.L),
                      writeReplaceInternal(v.paper, v.L, <<>>))

\* clear_range from the final _setDiff on: p1 is the paper that call leaves.
ClearRangeResult(s, e, done, p1) ==
  [paper |-> p1,
   out |-> [ok |-> TRUE, op |-> "clear_range", startLine |-> Js(s), endLine |-> Js(e),
            appliedCount |-> Len(done.applied),
            removedLines |-> done.removedTopDown, applied |-> done.applied,
            paper_rev |-> p1.rev]]

\* clear_range after the loop, unless the loop raised.
ClearRangeDone(s, e, done) ==
  IF done.threw THEN [paper |-> done.paper, out |-> TypeError]
  ELSE ClearRangeResult(s, e, done,
                        setDiff(done.paper, s, Null, Some(done.removedTopDown), <<>>))

\* clear_range once maxLine is computed.
ClearRangeIn(p, maxLine, startLine, endLine) ==
  LET s0 == ClampLine(startLine, Num(1), maxLine)
      e0 == MathMax(Num(1), MathMin(NumberOr(endLine, s0), maxLine))
      s == IF Twice(e0) < Twice(s0) THEN e0 ELSE s0
      e == IF Twice(e0) < Twice(s0) THEN s0 ELSE e0
  IN ClearRangeDone(s, e,
                    ClearRangeLoop([paper |-> p, L |-> e, removedTopDown |-> <<>>,
                                    applied |-> <<>>, threw |-> FALSE], s))

clear_range(p, startLine, endLine) ==
  ClearRangeIn(p, Len(getVisualLines(p)), startLine, endLine)

\* beforeVis.map((v) => v.text || "")
TextsOf(vis) == [i \in 1..Len(vis) |-> vis[i].text]

\* clear_all once removedLines is computed.
ClearAllIn(p1, removedLines) ==
  [paper |-> setDiff(p1, Num(1), Null, Some(removedLines), <<>>),
   out |-> [ok |-> TRUE, op |-> "clear_all", paper_rev |-> p1.rev,
            removedLinesCount |-> Len(removedLines)]]

clear_all(p) ==
  ClearAllIn([p EXCEPT !.text = <<>>, !.rev = p.rev + 1], TextsOf(getVisualLines(p)))

\* if (Number.isFinite(n) && n >= 10 && n <= 120) paper.cols = Math.floor(n)
setCols(p, n) ==
  IF n.k \in {"num", "half"} /\ Twice(n) >= 20 /\ Twice(n) <= 240
  THEN [p EXCEPT !.cols = n.v]
  ELSE p

seed(p, text) == [p EXCEPT !.text = text, !.rev = p.rev + 1, !.diff = Null]

\* clear doing nothing on an empty buffer.
clear_OnlyIfChanged(p) ==
  IF p.text = <<>> THEN p ELSE [p EXCEPT !.text = <<>>, !.rev = p.rev + 1, !.diff = Null]

clear(p) == [p EXCEPT !.text = <<>>, !.rev = p.rev + 1, !.diff = Null]

\* ------------------------------------------------------------ the inputs
\* cols options a kernel is constructed with (26 is the default)
ColsOptions == {3, 26}

SetColsArgs == {Num(9), Num(26), Num(121), NaN, Half(10)}

\* A buffer of WINDOW + 2 newlines: more visual lines than the annotation
\* window holds.
ManyLines == [i \in 1..(WINDOW + 2) |-> "\n"]

SeedTexts ==
  { <<"a", " ", "b", "b", " ", "c">>,
    <<"a", "b", "\n", "\n", "b">>,
    <<"a", "b", "c", "d", "e">>,
    <<"a", " ", " ", "b", "<">>,
    <<"b", "\n">> }

ReplaceTexts == { <<" ", "\n">>, <<"b">>, <<" ", "a", "\t", " ", "b", "\n">> }

AppendTexts == { <<" ", "\n">>, <<"c">>, <<" ", "a", "\n", "b", " ">> }

\* line-number arguments: negative, zero, in range, beyond the end, not finite;
\* the writing calls are also given 1.5, a fraction between two lines, as the
\* line and as the end of a range.
LineArgs == {Num(-1), Num(0), Num(1), Num(2), Num(3), Num(9), NaN, PosInf, NegInf}

ReplaceLines == {Num(0), Num(2), Num(9), NaN, Half(1)}

RangeArgs ==
  { <<Num(1), Num(2)>>, <<Num(2), Num(1)>>, <<Num(2), Num(3)>>, <<Num(3), Num(1)>>,
    <<Num(0), Num(9)>>, <<Num(9), NaN>>, <<NaN, Num(2)>>, <<PosInf, NegInf>>,
    <<Num(-1), Num(0)>>, <<Num(9), Num(0)>>, <<Num(1), Half(1)>> }

ReadArgs ==
  { <<Num(-5), Num(99999)>>, <<Num(1), Num(3)>>, <<Num(3), Num(1)>>, <<Num(2), NaN>>,
    <<NaN, PosInf>>, <<NegInf, Num(2)>>, <<Num(0), Num(0)>>, <<PosInf, NegInf>> }

Queries == { <<>>, <<" ", "B">>, <<"a", " ", "b">> }

\* Every buffer of at most MaxWrapLen characters over two letters, the space
\* and the newline, and the widths they are laid out at.
WrapChars == {"a", "b", " ", "\n"}

WrapTexts == UNION {[1..n -> WrapChars] : n \in 0..MaxWrapLen}

WrapCols == {1, 2, 3, 26}

\* ------------------------------------------------------------------ state
\* paper: the kernel's paper object; last: the latest call on the kernel, its
\* arguments, the paper it found and the value it returned; run: the call of
\* layoutWordWrapWithOffsets in progress, when the layout is followed round by
\* round; job: the server's chat job; subs: the job's event-stream clients;
\* requests: how many requests of other clients have changed the paper.
VARIABLES paper, last, run, job, subs, requests

vars == <<paper, last, run, job, subs, requests>>

\* No layout followed round by round.
NoRun == [pc |-> "idle", s |-> <<>>, cols |-> 0, i |-> 0, pEnd |-> 0, cursor |-> 0,
          out |-> <<>>]

\* const jobs = new Map(): no job yet.
NoJob == [pc |-> "none", events |-> <<>>, subscribers |-> {}, done |-> FALSE,
          steps |-> <<>>, i |-> 0, at |-> 0, wrote |-> <<>>, deltas |-> 0,
          preview |-> [mode |-> "", text |-> <<>>]]

\* The clients that may open the job's event stream.
SubIds == {1, 2}

\* No client has opened the stream.
NoSubs == [s \in SubIds |-> [state |-> "new", got |-> <<>>]]

\* A call that raised is recorded under the op "throw".
Call(op, args, out) == [op |-> op, args |-> args, pre |-> paper, out |-> out]

\* The model takes a revision-changing call only below MaxRev, and a write
\* only when the buffer it leaves is no longer than MaxLen.
Below == paper.rev < MaxRev

Fits(p) == Len(p.text) <= MaxLen

Init ==
  /\ \E c \in ColsOptions : paper = createPaperKernel(c)
  /\ last = [op |-> "create", args |-> <<>>, pre |-> paper, out |-> Null]
  /\ run = NoRun
  /\ job = NoJob
  /\ subs = NoSubs
  /\ requests = 0

Seed ==
  \E t \in SeedTexts :
    /\ Below
    /\ paper' = seed(paper, t)
    /\ UNCHANGED <<run, job, subs, requests>>
    /\ last' = Call("seed", [text |-> t], Null)

Clear ==
  /\ Below
  /\ paper' = clear(paper)
  /\ UNCHANGED <<run, job, subs, requests>>
  /\ last' = Call("clear", <<>>, Null)

SetCols ==
  \E n \in SetColsArgs :
    /\ paper' = setCols(paper, n)
    /\ UNCHANGED <<run, job, subs, requests>>
    /\ last' = Call("setCols", [n |-> n], Null)

ClearDiff ==
  /\ paper' = clearDiff(paper)
  /\ UNCHANGED <<run, job, subs, requests>>
  /\ last' = Call("clearDiff", <<>>, Null)

GetState ==
  \E iv \in BOOLEAN :
    /\ paper' = paper
    /\ UNCHANGED <<run, job, subs, requests>>
    /\ last' = Call("getState", [includeVisual |-> iv], getState(paper, iv))

Search ==
  \E q \in Queries, k \in {1, 8} :
    /\ paper' = paper
    /\ UNCHANGED <<run, job, subs, requests>>
    /\ last' = Call("search", [query |-> q, topK |-> k], search(paper, q, k))

Read ==
  \E ab \in ReadArgs :
    /\ paper' = paper
    /\ UNCHANGED <<run, job, subs, requests>>
    /\ last' = Call("read", [startLine |-> ab[1], endLine |-> ab[2]],
                    read(paper, ab[1], ab[2]))

\* read over the whole grid of line-number arguments
ReadGrid ==
  \E a \in LineArgs, b \in LineArgs :
    /\ paper' = paper
    /\ UNCHANGED <<run, job, subs, requests>>
    /\ last' = Call("read", [startLine |-> a, endLine |-> b], read(paper, a, b))

WriteReplace ==
  \E a \in ReplaceLines, t \in ReplaceTexts :
    LET r == write_replace(paper, a, t) IN
    /\ Below
    /\ Fits(r.paper)
    /\ paper' = r.paper
    /\ UNCHANGED <<run, job, subs, requests>>
    /\ last' = Call(IF r.out = TypeError THEN "throw" ELSE "write_replace",
                    [anchorLine |-> a, newText |-> t], r.out)

WriteAppend ==
  \E t \in AppendTexts, enp \in BOOLEAN :
    LET r == write_append(paper, t, enp) IN
    /\ Below \/ ~r.out.ok
    /\ Fits(r.paper)
    /\ paper' = r.paper
    /\ UNCHANGED <<run, job, subs, requests>>
    /\ last' = Call("write_append", [text |-> t, ensureNewParagraph |-> enp], r.out)

ClearLine ==
  \E a \in LineArgs \cup {Half(1)} :
    LET r == clear_line(paper, a) IN
    /\ Below
    /\ paper' = r.paper
    /\ UNCHANGED <<run, job, subs, requests>>
    /\ last' = Call(IF r.out = TypeError THEN "throw" ELSE "clear_line",
                    [line |-> a], r.out)

ClearRange ==
  \E ab \in RangeArgs :
    LET r == clear_range(paper, ab[1], ab[2]) IN
    /\ Below
    /\ paper' = r.paper
    /\ UNCHANGED <<run, job, subs, requests>>
    /\ last' = Call(IF r.out = TypeError THEN "throw" ELSE "clear_range",
                    [startLine |-> ab[1], endLine |-> ab[2]], r.out)

ClearAll ==
  LET r == clear_all(paper) IN
  /\ Below
  /\ paper' = r.paper
  /\ UNCHANGED <<run, job, subs, requests>>
  /\ last' = Call("clear_all", <<>>, r.out)

\* The kernel under every state-changing call, and read.
Next ==
  \/ Seed
  \/ Clear
  \/ SetCols
  \/ ClearDiff
  \/ Read
  \/ WriteReplace
  \/ WriteAppend
  \/ ClearLine
  \/ ClearRange
  \/ ClearAll

Spec == Init /\ [][Next]_vars

\* The kernel under the calls that only read it, on the buffers seed and
\* write_append build.
NextQuery ==
  \/ Seed
  \/ SetCols
  \/ WriteAppend
  \/ ReadGrid
  \/ Search
  \/ GetState
  \/ ClearDiff

SpecQuery == Init /\ [][NextQuery]_vars

\* A kernel constructed at any of WrapCols.
InitWrap ==
  /\ \E c \in WrapCols : paper = createPaperKernel(c)
  /\ last = [op |-> "create", args |-> <<>>, pre |-> paper, out |-> Null]
  /\ run = NoRun
  /\ job = NoJob
  /\ subs = NoSubs
  /\ requests = 0

\* seed on a fresh kernel, over every short buffer
SeedWrap ==
  \E t \in WrapTexts :
    /\ paper.rev = 0
    /\ paper' = seed(paper, t)
    /\ UNCHANGED <<run, job, subs, requests>>
    /\ last' = Call("seed", [text |-> t], Null)

\* The layout of every short buffer at every width of WrapCols, as getState
\* returns it.
NextWrap ==
  \/ SeedWrap
  \/ GetState

SpecWrap == InitWrap /\ [][NextWrap]_vars

\* seed on a fresh kernel, with a short buffer or with ManyLines
SeedWindow ==
  \E t \in SeedTexts \cup {ManyLines} :
    /\ paper.rev = 0
    /\ paper' = seed(paper, t)
    /\ UNCHANGED <<run, job, subs, requests>>
    /\ last' = Call("seed", [text |-> t], Null)

\* The kernel seeded once, with a buffer of fewer or of more visual lines than
\* the annotation window holds, under the calls that set a diff.
NextWindow ==
  \/ SeedWindow
  \/ WriteReplace
  \/ WriteAppend
  \/ ClearLine
  \/ ClearRange
  \/ ClearAll

SpecWindow == Init /\ [][NextWindow]_vars

\* ------------------------------------- the layout, followed round by round
\* The widths a kernel is constructed with when the layout is followed round
\* by round: createPaperKernel stores the width it is given, negative or zero
\* as well.
LayoutCols == {-1, 0, 2, 26}

\* The longest buffer whose layout is followed round by round.
MaxLayoutLen == 3

\* The most visual lines a followed layout pushes before the model stops
\* following it: more than any buffer of MaxLayoutLen characters has.
MaxLines == 6

\* The buffers whose layout is followed round by round.
LayoutTexts == UNION {[1..n -> WrapChars] : n \in 0..MaxLayoutLen}

InitLayout ==
  /\ paper \in {createPaperKernel(c) : c \in LayoutCols}
  /\ last = [op |-> "create", args |-> <<>>, pre |-> paper, out |-> Null]
  /\ run = NoRun
  /\ job = NoJob
  /\ subs = NoSubs
  /\ requests = 0

\* seed on a fresh kernel, no layout in progress
SeedLayout ==
  \E t \in LayoutTexts :
    /\ paper.rev = 0
    /\ run.pc = "idle"
    /\ paper' = seed(paper, t)
    /\ UNCHANGED <<run, job, subs, requests>>
    /\ last' = Call("seed", [text |-> t], Null)

\* getVisualLines() calls layoutWordWrapWithOffsets(paper.text, paper.cols):
\* const out = []; let lineNo = 1; let i = 0; const s = String(buffer)
LayoutCall ==
  /\ run.pc = "idle"
  /\ run' = [pc |-> "buffer", s |-> paper.text, cols |-> paper.cols, i |-> 0,
             pEnd |-> 0, cursor |-> 0, out |-> <<>>]
  /\ UNCHANGED <<paper, last, job, subs, requests>>

\* while (i <= s.length): pEnd, pStart and para are set, cursor = 0
LayoutPara ==
  /\ run.pc = "buffer"
  /\ run' = IF run.i <= Len(run.s)
            THEN [run EXCEPT !.pc = "para", !.pEnd = ParaEnd(run.s, run.i),
                             !.cursor = 0]
            ELSE [run EXCEPT !.pc = "end"]
  /\ UNCHANGED <<paper, last, job, subs, requests>>

\* The paragraph the followed layout is in.
RunPara == Slice(run.s, run.i, run.pEnd)

\* One round of while (cursor < para.length): the leading spaces are skipped,
\* a line is built and pushed; the loop is left when the cursor is at the end.
LayoutLine ==
  LET c1 == SkipSpaces(RunPara, run.cursor)
      b == BuildLine(RunPara, run.i, run.cols, c1, <<>>, run.i + c1, run.i + c1) IN
  /\ run.pc = "para"
  /\ Len(run.out) < MaxLines
  /\ run' = IF run.cursor >= Len(RunPara)
            THEN [run EXCEPT !.pc = "paraEnd"]
            ELSE IF c1 >= Len(RunPara)
            THEN [run EXCEPT !.pc = "paraEnd", !.cursor = c1]
            ELSE [run EXCEPT !.cursor = b.cursor,
                             !.out = Append(@, [lineNo |-> Len(@) + 1, text |-> b.text,
                                                start |-> b.start, end |-> b.end])]
  /\ UNCHANGED <<paper, last, job, subs, requests>>

\* After the paragraph loop: the line of an empty paragraph, i = pEnd + 1,
\* if (pEnd === s.length) break
LayoutParaEnd ==
  /\ run.pc = "paraEnd"
  /\ run' = [run EXCEPT !.out = EmptyParaLine(RunPara, run.i, @),
                        !.i = run.pEnd + 1,
                        !.pc = IF run.pEnd = Len(run.s) THEN "end" ELSE "buffer"]
  /\ UNCHANGED <<paper, last, job, subs, requests>>

\* if (!out.length) out.push(...); return out
LayoutReturn ==
  /\ run.pc = "end"
  /\ run' = NoRun
  /\ last' = Call("getVisualLines", <<>>, OrEmptyLine(run.out))
  /\ UNCHANGED <<paper, job, subs, requests>>

NextLayout ==
  \/ SeedLayout
  \/ LayoutCall
  \/ LayoutPara
  \/ LayoutLine
  \/ LayoutParaEnd
  \/ LayoutReturn

\* A kernel of any stored width, seeded once, whose layout is followed round
\* by round; the layout in progress always takes its next step.
SpecLayout ==
  InitLayout /\ [][NextLayout]_vars
    /\ WF_vars(LayoutPara \/ LayoutLine \/ LayoutParaEnd \/ LayoutReturn)

\* ------------------------------------------------------ the server's job
\* One chat job of server.js: POST /api/chat/create starts runPipeline, which
\* runs between its awaits as one step each; GET /api/chat/stream attaches a
\* client. An event is its name and the payload fields that tell events
\* apart; ts and sid are left out.

\* const MAX_STEPS = config.executor?.maxSteps ?? 6
MAX_STEPS == 6

\* The most chunks the presenter's stream delivers.
MaxDeltas == 1

\* The most clients whose connection fails or closes during the job.
MaxFaults == 1

\* The most requests of other clients that change the paper around the job.
MaxRequests == 1

\* a.x ?? d
OrDefault(x, d) == IF x = Null THEN d ELSE x[1]

\* A step of the executor's plan; a field the step lacks is Null.
Step(op, text, line, startLine, endLine, query) ==
  [op |-> op, text |-> text, line |-> line, startLine |-> startLine,
   endLine |-> endLine, query |-> query]

\* The plans planActions returns: none, one replace, an append followed by an
\* empty replace, the reading steps, the clearing steps and an unknown one,
\* and two with a line number between two lines (Number(a.line) is passed on
\* as it is).
JobPlans ==
  { <<>>,
    << Step("write_replace", Some(<<"b">>), Some(Num(1)), Null, Null, Null) >>,
    << Step("write_append", Some(<<" ", "a", "\n", "b", " ">>), Null, Null, Null, Null),
       Step("write_replace", Some(<<" ", "\n">>), Null, Null, Null, Null) >>,
    << Step("write_append", Null, Null, Null, Null, Null),
       Step("read", Null, Null, Some(Num(1)), Null, Null),
       Step("search", Null, Null, Null, Null, Some(<<"a">>)) >>,
    << Step("clear_range", Null, Null, Some(Num(1)), Null, Null),
       Step("clear_line", Null, Some(Num(1)), Null, Null, Null),
       Step("clear_all", Null, Null, Null, Null, Null),
       Step("", Null, Null, Null, Null, Null) >>,
    << Step("write_append", Some(<<"a", "\n", "b">>), Null, Null, Null, Null),
       Step("write_replace", Some(<<"c">>), Some(Half(1)), Null, Null, Null),
       Step("read", Null, Null, Some(Num(1)), Null, Null) >>,
    << Step("clear_line", Null, Some(Half(1)), Null, Null, Null) >> }

\* String(a.text ?? "")
TextOf(a) == OrDefault(a.text, <<>>)

\* html.length, text.length: one for every code unit, and the characters of
\* every chunk of markup
RECURSIVE JsLength(_)
JsLength(str) ==
  IF str = <<>> THEN 0
  ELSE (IF Head(str) \in {"&amp;", "&lt;", "&gt;", "&quot;", "&#039;", SpanOpen, SpanClose}
        THEN Len(Head(str)) ELSE 1) + JsLength(Tail(str))

EvState(p) == [event |-> "paper.state", paper |-> getState(p, TRUE)]

EvProgress(state) == [event |-> "progress", state |-> state]

\* An event told apart by its name alone: debug.executor_raw, error, chat.final
Ev(event) == [event |-> event]

EvProposed(steps, k) ==
  [event |-> "paper.proposed", stepIndex |-> k, totalSteps |-> Len(steps),
   op |-> IF steps[k].op = "" THEN "unknown" ELSE steps[k].op,
   previewEnabled |-> /\ steps[k].op \in {"write_append", "write_replace"}
                      /\ Trim(TextOf(steps[k])) # <<>>,
   previewTextLength |-> IF steps[k].op = "write_append" THEN Len(TextOf(steps[k])) ELSE 0]

EvPreview(event, steps, k, mode) ==
  [event |-> event, stepIndex |-> k, totalSteps |-> Len(steps), op |-> steps[k].op,
   mode |-> mode]

\* paper.preview_delta for plain text, paper.preview_html_delta for html; the
\* delta is the chunk that starts at character `at`.
EvPreviewDelta(steps, k, mode, at) ==
  [event |-> IF mode = "html" THEN "paper.preview_html_delta" ELSE "paper.preview_delta",
   stepIndex |-> k, totalSteps |-> Len(steps), op |-> steps[k].op, mode |-> mode,
   at |-> at]

EvDone(ok) == [event |-> "done", ok |-> ok]

\* broadcast: job.events.push({ event, data: payload }), for each of `es`; a
\* subscriber whose write throws is deleted from job.subscribers
Pushed(j, es) ==
  [j EXCEPT !.events = @ \o es,
            !.subscribers = IF es = <<>> THEN @
                            ELSE {s \in @ : subs[s].state = "open"}]

\* broadcast: sseWrite(sub, event, payload) for (const sub of job.subscribers).
\* A client whose first write (the event line) throws receives nothing; one
\* whose second write (the data line) throws holds the event line of the
\* first event alone; either is dropped from the subscribers, with no end().
Delivered(sb, j, es) ==
  [s \in SubIds |->
     IF s \notin j.subscribers \/ es = <<>> THEN sb[s]
     ELSE IF sb[s].state = "open" THEN [sb[s] EXCEPT !.got = @ \o es]
     ELSE IF sb[s].state = "failsOnData"
          THEN [state |-> "dropped",
                got |-> sb[s].got \o <<[event |-> es[1].event, partial |-> TRUE]>>]
          ELSE [sb[s] EXCEPT !.state = "dropped"]]

\* endSubscribers: s.end() for (const s of job.subscribers), the clients that
\* the broadcast before it has left there
Ended(sb, j) ==
  [s \in SubIds |->
     IF s \in j.subscribers /\ sb[s].state = "open"
     THEN [sb[s] EXCEPT !.state = "ended"]
     ELSE sb[s]]

\* runPipeline(job).catch: error and done { ok: false } are broadcast,
\* job.done = true, and endSubscribers empties job.subscribers
Failed(j) ==
  Pushed([j EXCEPT !.pc = "failed", !.done = TRUE, !.subscribers = {}],
         <<Ev("error"), EvDone(FALSE)>>)

\* The events the step from j to j2 broadcast.
NewEvents(j, j2) == SubSeq(j2.events, Len(j.events) + 1, Len(j2.events))

\* POST /api/chat/create with a message, and runPipeline up to
\* await ai.planActions
JobCreate ==
  /\ job.pc = "none"
  /\ paper' = clearDiff(paper)
  /\ last' = Call("clearDiff", <<>>, Null)
  /\ job' = Pushed([NoJob EXCEPT !.pc = "planning"],
                   << EvState(clearDiff(paper)), EvProgress("received"),
                      EvProgress("executing") >>)
  /\ UNCHANGED <<run, subs, requests>>

\* ai.planActions resolves: debug.executor_raw and progress committing; with
\* no steps paper.state and the presenter, otherwise the first paper.proposed
PlanReturns ==
  \E plan \in JobPlans :
    LET steps == Slice(plan, 0, MAX_STEPS)
        committing == [event |-> "progress", state |-> "committing", steps |-> Len(steps)] IN
    /\ job.pc = "planning"
    /\ job' = IF steps = <<>>
              THEN Pushed([job EXCEPT !.pc = "presenting"],
                          <<Ev("debug.executor_raw"), committing, EvState(paper)>>)
              ELSE Pushed([job EXCEPT !.pc = "proposing", !.steps = steps, !.i = 1],
                          <<Ev("debug.executor_raw"), committing, EvProposed(steps, 1)>>)
    /\ subs' = Delivered(subs, job, NewEvents(job, job'))
    /\ UNCHANGED <<paper, last, run, requests>>

\* After a sleep of the proposing loop: the next paper.proposed, or the first
\* round of the applying loop up to its sleep.
ProposeNext ==
  /\ job.pc = "proposing"
  /\ job' = IF job.i < Len(job.steps)
            THEN Pushed([job EXCEPT !.i = @ + 1], <<EvProposed(job.steps, job.i + 1)>>)
            ELSE [job EXCEPT !.pc = "step", !.i = 1]
  /\ subs' = Delivered(subs, job, NewEvents(job, job'))
  /\ UNCHANGED <<paper, last, run, requests>>

\* continue: the next round up to its sleep, or, after the last step,
\* paper.state and progress presenting up to await streamPresenter
Continue(j, p) ==
  IF j.i < Len(j.steps)
  THEN [j EXCEPT !.pc = "step", !.i = @ + 1]
  ELSE Pushed([j EXCEPT !.pc = "presenting"], <<EvState(p), EvProgress("presenting")>>)

\* A step applied: paper.applied with the kernel's result r.out; wrote
\* records whether the step changed the buffer.
Applied(j, p, r) ==
  Pushed([j EXCEPT !.wrote = Append(@, r.paper.text # p.text)],
         <<[event |-> "paper.applied", stepIndex |-> j.i, totalSteps |-> Len(j.steps),
            op |-> j.steps[j.i].op, output |-> r.out]>>)

\* The kernel's result for the step a that is neither an append nor a replace.
StepResult(p, a) ==
  CASE a.op = "search" -> [paper |-> p, out |-> search(p, OrDefault(a.query, <<>>), 8)]
    [] a.op = "read" ->
         [paper |-> p,
          out |-> read(p, OrDefault(a.startLine, Num(1)),
                       OrDefault(a.endLine, OrDefault(a.startLine, Num(1))))]
    [] a.op = "clear_all" -> clear_all(p)
    [] a.op = "clear_line" -> clear_line(p, OrDefault(a.line, Num(1)))
    [] a.op = "clear_range" ->
         clear_range(p, OrDefault(a.startLine, Num(1)),
                     OrDefault(a.endLine, OrDefault(a.startLine, Num(1))))
    [] OTHER -> [paper |-> p, out |-> [ok |-> FALSE, changed |-> FALSE, reason |-> "unknown_op"]]

\* After the sleep of a round: a search, read, clear or unknown step; a call
\* that raises rejects runPipeline
StepOther ==
  LET a == job.steps[job.i]
      r == StepResult(paper, a) IN
  /\ job.pc = "step"
  /\ a.op \notin {"write_append", "write_replace"}
  /\ paper' = r.paper
  /\ last' = Call(IF r.out = TypeError THEN "throw" ELSE a.op, a, r.out)
  /\ job' = IF r.out = TypeError THEN Failed(job)
            ELSE Continue(Applied(job, paper, r), r.paper)
  /\ subs' = IF r.out = TypeError
             THEN Ended(Delivered(subs, job, NewEvents(job, job')), job)
             ELSE Delivered(subs, job, NewEvents(job, job'))
  /\ UNCHANGED <<run, requests>>

\* streamPreviewPlain, streamPreviewHtml up to the first sleep: nothing for a
\* blank text, paper.preview_reset otherwise
PreviewReset(j, mode, text) ==
  Pushed([j EXCEPT !.pc = "previewReset", !.at = 0,
                   !.preview = [mode |-> mode, text |-> text]],
         <<EvPreview("paper.preview_reset", j.steps, j.i, mode)>>)

\* After the sleep of a round: a write_append step
StepAppend ==
  LET a == job.steps[job.i]
      r == write_append(paper, TextOf(a), TRUE) IN
  /\ job.pc = "step"
  /\ a.op = "write_append"
  /\ IF Trim(TextOf(a)) = <<>>
     THEN /\ paper' = r.paper
          /\ last' = Call("write_append", a, r.out)
          /\ job' = Continue(Applied(job, paper, r), r.paper)
     ELSE /\ UNCHANGED <<paper, last>>
          /\ job' = PreviewReset(job, "plain", TextOf(a))
  /\ subs' = Delivered(subs, job, NewEvents(job, job'))
  /\ UNCHANGED <<run, requests>>

\* After the sleep of a round: a write_replace step is applied; its html
\* preview (st?.diff?.annot?.htmlLines || [], joined by "\n") starts only when
\* the text is not blank, out.changed holds (a result without the field gives
\* undefined) and the html is not blank. A call that raises rejects
\* runPipeline.
StepReplace ==
  LET a == job.steps[job.i]
      r == write_replace(paper, OrDefault(a.line, Num(1)), TextOf(a))
      st == getState(r.paper, FALSE)
      html == IF st.diff = Null THEN <<>> ELSE Join(st.diff[1].annot.htmlLines) IN
  /\ job.pc = "step"
  /\ a.op = "write_replace"
  /\ paper' = r.paper
  /\ last' = Call(IF r.out = TypeError THEN "throw" ELSE "write_replace", a, r.out)
  /\ job' = IF r.out = TypeError THEN Failed(job)
            ELSE IF /\ Trim(TextOf(a)) # <<>>
                    /\ "changed" \in DOMAIN r.out /\ r.out.changed = TRUE
                    /\ Trim(html) # <<>>
            THEN PreviewReset(Applied(job, paper, r), "html", html)
            ELSE Continue(Applied(job, paper, r), r.paper)
  /\ subs' = IF r.out = TypeError
             THEN Ended(Delivered(subs, job, NewEvents(job, job')), job)
             ELSE Delivered(subs, job, NewEvents(job, job'))
  /\ UNCHANGED <<run, requests>>

\* After the sleep that follows paper.preview_reset: paper.preview_start and
\* the first delta (const chunkSize = 24 for plain text, 64 for html)
PreviewStart ==
  /\ job.pc = "previewReset"
  /\ job' = Pushed([job EXCEPT !.pc = "previewDelta",
                               !.at = IF job.preview.mode = "html" THEN 64 ELSE 24],
                   << EvPreview("paper.preview_start", job.steps, job.i, job.preview.mode),
                      EvPreviewDelta(job.steps, job.i, job.preview.mode, 0) >>)
  /\ subs' = Delivered(subs, job, NewEvents(job, job'))
  /\ UNCHANGED <<paper, last, run, requests>>

\* After the sleep that follows a delta: the next delta, or paper.preview_done
PreviewDelta ==
  /\ job.pc = "previewDelta"
  /\ job' = IF job.at < JsLength(job.preview.text)
            THEN Pushed([job EXCEPT !.at = @ + (IF job.preview.mode = "html" THEN 64 ELSE 24)],
                        <<EvPreviewDelta(job.steps, job.i, job.preview.mode, job.at)>>)
            ELSE Pushed([job EXCEPT !.pc = "previewDone"],
                        <<[event |-> "paper.preview_done", stepIndex |-> job.i,
                           totalSteps |-> Len(job.steps), op |-> job.steps[job.i].op,
                           mode |-> job.preview.mode,
                           length |-> JsLength(job.preview.text)]>>)
  /\ subs' = Delivered(subs, job, NewEvents(job, job'))
  /\ UNCHANGED <<paper, last, run, requests>>

\* After the sleep that follows paper.preview_done: the append is applied
\* after its plain preview, the replace continues after its html preview
PreviewReturns ==
  LET a == job.steps[job.i]
      r == write_append(paper, TextOf(a), TRUE) IN
  /\ job.pc = "previewDone"
  /\ IF job.preview.mode = "plain"
     THEN /\ paper' = r.paper
          /\ last' = Call("write_append", a, r.out)
          /\ job' = Continue(Applied(job, paper, r), r.paper)
     ELSE /\ UNCHANGED <<paper, last>>
          /\ job' = Continue(job, paper)
  /\ subs' = Delivered(subs, job, NewEvents(job, job'))
  /\ UNCHANGED <<run, requests>>

\* A chunk of the presenter's stream: onDelta broadcasts chat.delta
PresenterDelta ==
  /\ job.pc = "presenting"
  /\ job.deltas < MaxDeltas
  /\ job' = Pushed([job EXCEPT !.deltas = @ + 1], <<[event |-> "chat.delta", n |-> job.deltas + 1]>>)
  /\ subs' = Delivered(subs, job, NewEvents(job, job'))
  /\ UNCHANGED <<paper, last, run, requests>>

\* The presenter's stream ends: chat.final; job.done = true;
\* broadcast(job, "done", { ok: true }); endSubscribers(job)
PresenterReturns ==
  /\ job.pc = "presenting"
  /\ job' = Pushed([job EXCEPT !.pc = "finished", !.done = TRUE, !.subscribers = {}],
                   <<Ev("chat.final"), EvDone(TRUE)>>)
  /\ subs' = Ended(Delivered(subs, job, NewEvents(job, job')), job)
  /\ UNCHANGED <<paper, last, run, requests>>

\* ai.planActions or the presenter's stream rejects: runPipeline(job).catch
\* broadcasts error and done { ok: false }, sets job.done and ends the clients
\* (a step that raises does the same, see StepOther and StepReplace)
PipelineFails ==
  /\ job.pc \in {"planning", "presenting"}
  /\ job' = Failed(job)
  /\ subs' = Ended(Delivered(subs, job, NewEvents(job, job')), job)
  /\ UNCHANGED <<paper, last, run, requests>>

\* GET /api/chat/stream: the past events are replayed; a job that is done
\* gets done { ok: true } and the end, any other keeps the client.
Attach ==
  \E s \in SubIds :
    /\ job.pc # "none"
    /\ subs[s].state = "new"
    /\ subs' = [subs EXCEPT ![s] =
                  IF job.done
                  THEN [state |-> "ended", got |-> job.events \o <<EvDone(TRUE)>>]
                  ELSE [state |-> "open", got |-> job.events]]
    /\ job' = IF job.done THEN job ELSE [job EXCEPT !.subscribers = @ \cup {s}]
    /\ UNCHANGED <<paper, last, run, requests>>

\* res.write of an attached client throws from now on, at the event line or
\* at the data line of a frame (try { sseWrite(...) } catch in broadcast)
WriteFails ==
  \E s \in SubIds, how \in {"failsOnEvent", "failsOnData"} :
    /\ subs[s].state = "open"
    /\ Cardinality({c \in SubIds : subs[c].state \notin {"new", "open", "ended"}}) < MaxFaults
    /\ subs' = [subs EXCEPT ![s].state = how]
    /\ UNCHANGED <<paper, last, run, job, requests>>

\* req.on("close", () => job.subscribers.delete(res))
Close ==
  \E s \in SubIds :
    /\ subs[s].state \in {"open", "failsOnEvent", "failsOnData"}
    /\ \/ subs[s].state # "open"
       \/ Cardinality({c \in SubIds : subs[c].state \notin {"new", "open", "ended"}}) < MaxFaults
    /\ subs' = [subs EXCEPT ![s].state = "closed"]
    /\ job' = [job EXCEPT !.subscribers = @ \ {s}]
    /\ UNCHANGED <<paper, last, run, requests>>

\* Another request changes the paper, before the job, while its pipeline is
\* suspended at an await, or after it: POST /api/paper/seed, /api/paper/clear
\* and /api/paper/cols, and POST /api/chat/create for another job, which
\* shares only the paper with this one: its pipeline starts by
\* paper.clearDiff() and applies each of its steps as this job does. A
\* request that leaves the paper as it is is not followed.
PaperRequest ==
  /\ requests < MaxRequests
  /\ \/ \E t \in {<<"b">>, <<"a", " ", "b", "b", " ", "c">>} :
          /\ paper' = seed(paper, t)
          /\ last' = Call("seed", [text |-> t], Null)
     \/ /\ paper' = clear(paper)
        /\ last' = Call("clear", <<>>, Null)
     \/ \E n \in SetColsArgs :
          /\ paper' = setCols(paper, n)
          /\ last' = Call("setCols", [n |-> n], Null)
     \/ /\ paper' = clearDiff(paper)
        /\ last' = Call("clearDiff", <<>>, Null)
     \/ \E plan \in JobPlans :
          \E k \in 1..Len(plan) :
            LET a == plan[k]
                r == CASE a.op = "write_append" -> write_append(paper, TextOf(a), TRUE)
                       [] a.op = "write_replace" ->
                            write_replace(paper, OrDefault(a.line, Num(1)), TextOf(a))
                       [] OTHER -> StepResult(paper, a) IN
            /\ paper' = r.paper
            /\ last' = Call(a.op, a, r.out)
  /\ paper' # paper
  /\ requests' = requests + 1
  /\ UNCHANGED <<run, job, subs>>

NextJob ==
  \/ PaperRequest
  \/ JobCreate
  \/ PlanReturns
  \/ ProposeNext
  \/ StepOther
  \/ StepAppend
  \/ StepReplace
  \/ PreviewStart
  \/ PreviewDelta
  \/ PreviewReturns
  \/ PresenterDelta
  \/ PresenterReturns
  \/ PipelineFails
  \/ Attach
  \/ WriteFails
  \/ Close

\* One job on the server's paper, with the clients of its event stream.
SpecJob == Init /\ [][NextJob]_vars

\* ------------------------------------------------- what the claims speak of
MutatingOps == {"write_replace", "write_append", "clear_line", "clear_range", "clear_all"}

\* The layout the latest call found, and the one it left.
PreVis == layoutWordWrapWithOffsets(last.pre.text, last.pre.cols)

PostVis == layoutWordWrapWithOffsets(paper.text, paper.cols)

IsNaN(x) == x.k = "nan"

\* A line-number argument resolved into [1, n] as the specification words it:
\* below 1 or not a number gives 1, above n gives n.
ResolveLine(x, n) ==
  IF IsNaN(x) \/ x = NegInf THEN 1
  ELSE IF x = PosInf THEN n
  ELSE IF Twice(x) < 2 THEN 1
  ELSE IF Twice(x) > 2 * n THEN n
  ELSE x.v

\* An endLine argument as the code resolves it: 0 and NaN stand for the
\* resolved startLine s.
ResolveEnd(x, s, n) == IF IsNaN(x) \/ x = Num(0) THEN s ELSE ResolveLine(x, n)

\* The line-number argument of the latest write_replace or clear_line.
LineArg == IF last.op = "write_replace" THEN last.args.anchorLine ELSE last.args.line

\* The text the latest write_replace or clear_line was given.
TextArg == IF last.op = "write_replace" THEN last.args.newText ELSE <<>>

\* The words of s: its maximal runs of non-whitespace characters, in order.
RECURSIVE WordsOf(_, _, _)
WordsOf(s, i, cur) ==
  IF i > Len(s) THEN (IF cur = <<>> THEN <<>> ELSE <<cur>>)
  ELSE IF IsWS(s[i])
       THEN (IF cur = <<>> THEN <<>> ELSE <<cur>>) \o WordsOf(s, i + 1, <<>>)
       ELSE WordsOf(s, i + 1, Append(cur, s[i]))

\* The words joined by single spaces.
RECURSIVE JoinSpaces(_)
JoinSpaces(ws) ==
  IF ws = <<>> THEN <<>>
  ELSE IF Len(ws) = 1 THEN ws[1]
       ELSE ws[1] \o <<" ">> \o JoinSpaces(Tail(ws))

\* newText with every whitespace run collapsed to one space and both ends trimmed
Normalized(newText) == JoinSpaces(WordsOf(newText, 1, <<>>))

\* ---------------------------------------------------------------------- C1
\* C1 (as claimed): a mutating action that changes the buffer text raises the
\* revision by exactly 1; one that leaves the text unchanged, or returns
\* ok=false, leaves the revision unchanged.
C1_RevisionTracksChange ==
  last.op \in MutatingOps =>
    IF paper.text # last.pre.text /\ last.out.ok
    THEN paper.rev = last.pre.rev + 1
    ELSE paper.rev = last.pre.rev

\* ---------------------------------------------------------------------- C2
\* C2 (as claimed): the result of every mutating action carries a boolean
\* field `changed`, true only if the buffer text differs from the text before.
C2_ResultCarriesChanged ==
  last.op \in MutatingOps =>
    /\ "changed" \in DOMAIN last.out
    /\ last.out.changed \in BOOLEAN
    /\ last.out.changed => paper.text # last.pre.text

\* ---------------------------------------------------------------------- C3
\* The line numbers of the lines a read returned.
ReadLineNos == [i \in 1..Len(last.out.lines) |-> last.out.lines[i].line]

Range(a, b) == [i \in 1..(b - a + 1) |-> a + i - 1]

\* C3 (as claimed): write_replace, clear_line, clear_range and read complete
\* without raising an error for every line-number argument, and the argument
\* resolves into [1, lineCount] of the layout before the action, a value
\* below 1 or a non-number to line 1 and a value above the line count to the
\* last line.
C3_EveryArgumentResolvesAsWorded ==
  LET n == Len(PreVis) IN
  /\ last.op # "throw"
  /\ last.op \in {"write_replace", "clear_line"} =>
       last.out.anchorLine = ResolveLine(LineArg, n)
  /\ last.op = "clear_range" =>
       LET a == ResolveLine(last.args.startLine, n)
           b == ResolveLine(last.args.endLine, n)
       IN last.out.startLine = Min2(a, b) /\ last.out.endLine = Max2(a, b)
  /\ last.op = "read" =>
       /\ last.out.startLine = ResolveLine(last.args.startLine, n)
       /\ last.out.endLine \in 1..n

\* ---------------------------------------------------------------------- C4
\* C4 (as claimed): read swaps reversed bounds: it returns every visual line
\* from the smaller clamped bound to the larger clamped bound.
C4_ReadSwapsBounds ==
  last.op = "read" =>
    LET n == Len(PreVis)
        a == ResolveLine(last.args.startLine, n)
        b == ResolveLine(last.args.endLine, n)
    IN ReadLineNos = Range(Min2(a, b), Max2(a, b))

\* What read reports of a visual line.
ReadEntry(v) == [line |-> v.lineNo, text |-> v.text, start |-> v.start, end |-> v.end]

\* C4 (amended): read does not swap reversed bounds. It returns every visual
\* line from the clamped startLine s to the clamped endLine e, where an endLine
\* of 0 or NaN counts as s and an e below s is raised to s: with reversed
\* bounds it returns line s alone.
C4_ReadRaisesEndToStart ==
  last.op = "read" =>
    LET n == Len(PreVis)
        s == ResolveLine(last.args.startLine, n)
        b == ResolveEnd(last.args.endLine, s, n)
        e == IF b < s THEN s ELSE b
    IN /\ Len(last.out.lines) = e - s + 1
       /\ \A i \in 1..Len(last.out.lines) : last.out.lines[i] = ReadEntry(PreVis[s + i - 1])
       /\ b < s => last.out.lines = <<ReadEntry(PreVis[s])>>

\* A read with reversed bounds (startLine 3, endLine 1) of a buffer of three
\* lines or more, which returned line 3 alone.
C4_Witness_Reversed ==
  /\ last.op = "read"
  /\ last.args.startLine = Num(3)
  /\ last.args.endLine = Num(1)
  /\ Len(PreVis) >= 3
  /\ ReadLineNos = <<3>>

\* ---------------------------------------------------------------------- C5
\* C5: write_replace leaves pre[0:start] + normalized + pre[end:], with
\* [start, end) the span of the clamped target line before the action and
\* normalized the newText with whitespace runs collapsed and the ends
\* trimmed: the characters of pre outside [start, end) stay, in order.
C5_ReplaceSplices ==
  last.op = "write_replace" =>
    LET pre == last.pre.text
        t == PreVis[ResolveLine(last.args.anchorLine, Len(PreVis))]
        norm == Normalized(last.args.newText)
        shift == Len(norm) - (t.end - t.start)
    IN /\ Len(paper.text) = Len(pre) + shift
       /\ \A i \in 1..t.start : paper.text[i] = pre[i]
       /\ \A i \in 1..Len(norm) : paper.text[t.start + i] = norm[i]
       /\ \A i \in (t.end + 1)..Len(pre) : paper.text[i + shift] = pre[i]

\* A write_replace of line 2 of a three-line buffer by a text with whitespace
\* to collapse and to trim, with text before and after the span.
C5_Witness_Splice ==
  /\ last.op = "write_replace"
  /\ last.args.anchorLine = Num(2)
  /\ last.args.newText = <<" ", "a", "\t", " ", "b", "\n">>
  /\ Len(PreVis) = 3
  /\ PreVis[2].start > 0
  /\ PreVis[2].end < Len(last.pre.text)
  /\ paper.text # last.pre.text

\* ---------------------------------------------------------------------- C6
\* The absolute span the latest write_replace or write_append inserted.
InsertedStart ==
  IF last.op = "write_replace"
  THEN PreVis[ResolveLine(last.args.anchorLine, Len(PreVis))].start
  ELSE Len(last.pre.text)
       + (IF /\ last.args.ensureNewParagraph
             /\ last.pre.text # <<>>
             /\ last.pre.text[Len(last.pre.text)] # "\n"
          THEN 1 ELSE 0)

InsertedEnd ==
  IF last.op = "write_replace"
  THEN InsertedStart + Len(Normalized(last.args.newText))
  ELSE Len(paper.text)

\* The numbers of the post-edit lines whose span overlaps the inserted span.
OverlappingLines ==
  {PostVis[i].lineNo : i \in {j \in 1..Len(PostVis) :
      PostVis[j].start < InsertedEnd /\ PostVis[j].end > InsertedStart}}

StrictlyIncreasing(q) == \A i \in 1..(Len(q) - 1) : q[i] < q[i + 1]

\* C6: after a write_replace and after a successful write_append,
\* highlightLines, in the result and in the active diff, is exactly the set of
\* post-edit lines whose span [s, e) has s < insertedEnd and e > insertedStart.
C6_HighlightIsOverlap ==
  (last.op = "write_replace" \/ (last.op = "write_append" /\ last.out.ok)) =>
    /\ ToSet(last.out.highlightLines) = OverlappingLines
    /\ StrictlyIncreasing(last.out.highlightLines)
    /\ paper.diff # Null
    /\ paper.diff[1].highlightLines = last.out.highlightLines

\* A write_append with ensureNewParagraph to a non-empty buffer without
\* trailing newline: the appended line, and no other, is highlighted.
C6_Witness_Append ==
  /\ last.op = "write_append"
  /\ last.out.ok
  /\ last.args.ensureNewParagraph
  /\ last.pre.text # <<>>
  /\ paper.text = last.pre.text \o <<"\n", "c">>
  /\ last.out.highlightLines = <<Len(PostVis)>>
  /\ Len(PostVis) >= 2

\* ---------------------------------------------------------------------- C7
\* C7 (as claimed): a write_replace whose newText normalizes to empty, and a
\* clear_line, highlight nothing and expose removedLines = [the target line's
\* text before the edit] and removedText = null, in the result and the diff.
C7_ClearHighlightsNothing ==
  (last.op \in {"write_replace", "clear_line"} /\ Normalized(TextArg) = <<>>) =>
    LET old == PreVis[ResolveLine(LineArg, Len(PreVis))].text IN
    /\ last.out.highlightLines = <<>>
    /\ last.out.removedLines = Some(<<old>>)
    /\ last.out.removedText = Null
    /\ paper.diff # Null
    /\ paper.diff[1].highlightLines = <<>>
    /\ paper.diff[1].removedLines = Some(<<old>>)
    /\ paper.diff[1].removedText = Null

\* ---------------------------------------------------------------------- C8
\* C8: a write_replace whose newText normalizes to a non-empty string exposes
\* removedText = the target line's text before the action and removedLines =
\* null; one whose newText normalizes to empty exposes removedLines = [that
\* text] and removedText = null.
C8_RemovedTextOrLines ==
  last.op = "write_replace" =>
    LET old == PreVis[ResolveLine(last.args.anchorLine, Len(PreVis))].text
        d == paper.diff[1]
    IN IF Normalized(last.args.newText) # <<>>
       THEN /\ last.out.removedText = Some(old) /\ last.out.removedLines = Null
            /\ d.removedText = Some(old) /\ d.removedLines = Null
       ELSE /\ last.out.removedLines = Some(<<old>>) /\ last.out.removedText = Null
            /\ d.removedLines = Some(<<old>>) /\ d.removedText = Null

\* A write_replace of the line "bb" by the non-empty text "b".
C8_Witness_Replace ==
  /\ last.op = "write_replace"
  /\ last.args.anchorLine = Num(2)
  /\ last.args.newText = <<"b">>
  /\ last.out.removedText = Some(<<"b", "b">>)
  /\ last.out.removedLines = Null
  /\ paper.text # last.pre.text

\* ---------------------------------------------------------------------- C9
NonNull(x) == x # Null

\* C9 (as claimed): whenever a diff record is live, exactly one of its
\* removedText and removedLines is non-null.
C9_ExactlyOneRemoved ==
  paper.diff # Null =>
    (NonNull(paper.diff[1].removedText) /\ ~NonNull(paper.diff[1].removedLines))
    \/ (~NonNull(paper.diff[1].removedText) /\ NonNull(paper.diff[1].removedLines))

\* C9 (amended): whenever a diff record is live, at most one of its
\* removedText and removedLines is non-null: exactly one in the diff a
\* write_replace, clear_line, clear_range or clear_all leaves, and neither in
\* the diff a successful write_append leaves.
C9_AtMostOneRemoved ==
  /\ paper.diff # Null =>
       ~(NonNull(paper.diff[1].removedText) /\ NonNull(paper.diff[1].removedLines))
  /\ last.op \in {"write_replace", "clear_line", "clear_range", "clear_all"} =>
       /\ paper.diff # Null
       /\ NonNull(paper.diff[1].removedText) # NonNull(paper.diff[1].removedLines)
  /\ (last.op = "write_append" /\ last.out.ok) =>
       /\ paper.diff # Null
       /\ paper.diff[1].removedText = Null
       /\ paper.diff[1].removedLines = Null

\* The diff a successful write_append left over the diff of a replacement:
\* live, with neither removedText nor removedLines.
C9_Witness_AppendDiff ==
  /\ last.op = "write_append"
  /\ last.out.ok
  /\ last.pre.diff # Null
  /\ NonNull(last.pre.diff[1].removedText)
  /\ paper.diff # Null
  /\ paper.diff[1].removedText = Null
  /\ paper.diff[1].removedLines = Null

\* --------------------------------------------------------------------- C10
\* C10: a write_append whose text is empty after trimming returns ok=false
\* and leaves buffer text, revision, columns and the active diff as they were.
C10_EmptyAppendIsNoOp ==
  (last.op = "write_append" /\ \A i \in 1..Len(last.args.text) : IsWS(last.args.text[i])) =>
    /\ last.out.ok = FALSE
    /\ last.out.paper_rev = last.pre.rev
    /\ paper.text = last.pre.text
    /\ paper.rev = last.pre.rev
    /\ paper.cols = last.pre.cols
    /\ paper.diff = last.pre.diff

\* A write_append of whitespace only to a non-empty buffer with a live diff.
C10_Witness_EmptyAppend ==
  /\ last.op = "write_append"
  /\ last.args.text = <<" ", "\n">>
  /\ last.pre.text # <<>>
  /\ last.pre.diff # Null
  /\ last.pre.rev > 0

\* --------------------------------------------------------------------- C11
\* m is t without its leading and trailing whitespace.
IsTrimOf(m, t) ==
  \E i \in 0..Len(t), j \in 0..Len(t) :
    /\ i <= j
    /\ m = SubSeq(t, i + 1, j)
    /\ \A k \in 1..i : IsWS(t[k])
    /\ \A k \in (j + 1)..Len(t) : IsWS(t[k])
    /\ m # <<>> => (~IsWS(m[1]) /\ ~IsWS(m[Len(m)]))

\* The separator of the latest write_append: one newline exactly when
\* ensureNewParagraph is set and the buffer before is non-empty and does not
\* end with a newline.
AppendSep ==
  IF /\ last.args.ensureNewParagraph
     /\ last.pre.text # <<>>
     /\ last.pre.text[Len(last.pre.text)] # "\n"
  THEN <<"\n">>
  ELSE <<>>

\* C11: a successful write_append leaves the buffer equal to
\* old + sep + trim(text): old is a prefix of the new buffer, sep follows it,
\* and the rest is the non-empty text given, trimmed at both ends only.
C11_AppendConcatenates ==
  (last.op = "write_append" /\ last.out.ok) =>
    LET old == last.pre.text
        k == Len(old) + Len(AppendSep)
    IN /\ Len(paper.text) > k
       /\ SubSeq(paper.text, 1, Len(old)) = old
       /\ SubSeq(paper.text, Len(old) + 1, k) = AppendSep
       /\ IsTrimOf(SubSeq(paper.text, k + 1, Len(paper.text)), last.args.text)

\* A text with interior whitespace appended, as a new paragraph, to a
\* non-empty buffer that does not end with a newline.
C11_Witness_NewParagraph ==
  /\ last.op = "write_append"
  /\ last.out.ok
  /\ last.args.ensureNewParagraph
  /\ last.args.text = <<" ", "a", "\n", "b", " ">>
  /\ last.pre.text # <<>>
  /\ paper.text = last.pre.text \o <<"\n", "a", "\n", "b">>

\* --------------------------------------------------------------------- C12
\* C12 (as claimed): clear_range is symmetric in its bounds: with integer
\* bounds, the call with the bounds exchanged, on the same paper, leaves the same
\* text, revision and diff and reports the same startLine, endLine and
\* removedLines.
C12_ClearRangeSymmetric ==
  (/\ last.op = "clear_range"
   /\ last.args.startLine.k = "num"
   /\ last.args.endLine.k = "num") =>
    LET r == clear_range(last.pre, last.args.endLine, last.args.startLine)
    IN /\ r.paper = paper
       /\ r.out.startLine = last.out.startLine
       /\ r.out.endLine = last.out.endLine
       /\ r.out.removedLines = last.out.removedLines

\* --------------------------------------------------------------------- C13
\* The texts of lines s..e of the layout the latest call found.
PreTexts(s, e) == [i \in 1..(e - s + 1) |-> PreVis[s + i - 1].text]

\* C13 (as claimed): after clear_range the diff has no highlighted line, no
\* removedText, and removedLines equal to the texts of lines s..e of the layout
\* before the call, top to bottom.
C13_ClearRangeDiff ==
  last.op = "clear_range" =>
    /\ paper.diff # Null
    /\ paper.diff[1].highlightLines = <<>>
    /\ paper.diff[1].removedText = Null
    /\ paper.diff[1].removedLines =
         Some(PreTexts(last.out.startLine, last.out.endLine))

\* --------------------------------------------------------------------- C14
\* C14: after a mutating action that sets a diff, the annotation starts at
\* max(1, anchorLine - 2) and holds one entry, in order, for each visual line
\* of the layout after the edit numbered startLine .. min(lineCount,
\* startLine + 44), and no other entry.
C14_AnnotationWindow ==
  (last.op \in MutatingOps /\ last.out.ok) =>
    /\ paper.diff # Null
    /\ LET d == paper.diff[1]
           st == d.annot.startLine
           hi == Min2(Len(PostVis), st + 44)
           html == d.annot.htmlLines
       IN /\ st = Max2(1, d.anchorLine - 2)
          /\ Len(html) = Max2(0, hi - st + 1)
          /\ Len(html) <= 45
          /\ \A i \in 1..Len(html) :
               html[i] = AnnotHtml(PostVis[st + i - 1], ToSet(d.highlightLines))

\* An edit of a buffer with more visual lines than the window holds.
C14_Witness_FullWindow ==
  /\ last.op \in MutatingOps
  /\ last.out.ok
  /\ paper.diff # Null
  /\ Len(PostVis) > 45
  /\ Len(paper.diff[1].annot.htmlLines) = 45

\* --------------------------------------------------------------------- C15
\* C15 (as claimed): in every reachable state cols is an integer in [10,120],
\* and a setCols(n) with n outside [10,120] or not finite leaves cols as it was.
C15_ColsInRange ==
  /\ paper.cols \in 10..120
  /\ (last.op = "setCols" /\ ~(last.args.n.k = "num" /\ last.args.n.v \in 10..120)) =>
       paper.cols = last.pre.cols

\* --------------------------------------------------------------------- C16
\* C16: seed(text) leaves the buffer equal to text, clear leaves it empty;
\* both raise the revision by exactly 1 and leave no diff, whether or not the
\* buffer content changes.
C16_SeedAndClearReset ==
  /\ last.op = "seed" =>
       /\ paper.text = last.args.text
       /\ paper.rev = last.pre.rev + 1
       /\ paper.diff = Null
  /\ last.op = "clear" =>
       /\ paper.text = <<>>
       /\ paper.rev = last.pre.rev + 1
       /\ paper.diff = Null

\* clear on a buffer already empty that carries a diff.
C16_Witness_ClearUnchanged ==
  /\ last.op = "clear"
  /\ last.pre.text = <<>>
  /\ last.pre.diff # Null
  /\ paper.rev = last.pre.rev + 1

\* --------------------------------------------------------------------- C17
\* C17: read, search and getState leave text, revision, cols and diff as they
\* were; clearDiff leaves no diff and leaves text, revision and cols as they
\* were.
C17_QueriesDoNotMutate ==
  /\ last.op \in {"read", "search", "getState"} => paper = last.pre
  /\ last.op = "clearDiff" =>
       /\ paper.diff = Null
       /\ paper.text = last.pre.text
       /\ paper.rev = last.pre.rev
       /\ paper.cols = last.pre.cols

\* clearDiff on a non-empty buffer that carries a diff.
C17_Witness_ClearDiff ==
  /\ last.op = "clearDiff"
  /\ last.pre.diff # Null
  /\ last.pre.text # <<>>
  /\ last.pre.rev > 0

\* --------------------------------------------------------------------- C18
\* No newline lies between the starts of the lines a and b.
SameParagraph(a, b) == \A k \in (a.start + 1)..b.start : paper.text[k] # "\n"

\* C18: every visual line has 0 <= start <= end <= length(text), and every
\* two adjacent visual lines of one paragraph have line[i].end <=
\* line[i+1].start.
C18_OffsetsOrdered ==
  /\ \A i \in 1..Len(PostVis) :
       /\ 0 <= PostVis[i].start
       /\ PostVis[i].start <= PostVis[i].end
       /\ PostVis[i].end <= Len(paper.text)
  /\ \A i \in 1..(Len(PostVis) - 1) :
       SameParagraph(PostVis[i], PostVis[i + 1]) =>
         PostVis[i].end <= PostVis[i + 1].start

\* A paragraph of a cut word and a second word, on three lines.
C18_Witness_CutWord ==
  /\ paper.cols = 1
  /\ paper.text = <<"a", "b", " ", "a">>
  /\ Len(PostVis) = 3

\* --------------------------------------------------------------------- C19
\* C19: no visual line's text is longer than cols.
C19_LinesFit == \A i \in 1..Len(PostVis) : Len(PostVis[i].text) <= paper.cols

\* A line filled to exactly cols by two words, and a third word wrapped.
C19_Witness_FullLine ==
  /\ paper.cols = 3
  /\ Len(PostVis) = 2
  /\ PostVis[1].text = <<"a", " ", "b">>

\* --------------------------------------------------------------------- C20
\* The texts of the visual lines, one after the other.
RECURSIVE Concat(_)
Concat(texts) == IF texts = <<>> THEN <<>> ELSE Head(texts) \o Concat(Tail(texts))

NoSpaces(t) == SelectSeq(t, LAMBDA c : c # " ")

NoSpacesOrNewlines(t) == SelectSeq(t, LAMBDA c : c \notin {" ", "\n"})

\* The words of the visual lines, line after line.
RECURSIVE LineWords(_)
LineWords(texts) ==
  IF texts = <<>> THEN <<>>
  ELSE WordsOf(Head(texts), 1, <<>>) \o LineWords(Tail(texts))

\* C20: the visual lines' texts without their spaces, one after the other,
\* are the buffer without its spaces and newlines; and when no word is longer
\* than cols, the words of the visual lines are the words of the buffer in
\* the same order.
C20_WrapKeepsContent ==
  LET words == WordsOf(paper.text, 1, <<>>) IN
  /\ NoSpaces(Concat(TextsOf(PostVis))) = NoSpacesOrNewlines(paper.text)
  /\ (\A k \in 1..Len(words) : Len(words[k]) <= paper.cols) =>
       LineWords(TextsOf(PostVis)) = words

\* A buffer of a word longer than cols and a second word, on three lines.
C20_Witness_CutAndWrap ==
  /\ paper.cols = 2
  /\ paper.text = <<"a", "a", "b", " ", "b">>
  /\ Len(PostVis) = 3

\* --------------------------------------------------------------------- C21
\* The length of the run of characters other than space and newline that
\* starts at offset w of the buffer.
RECURSIVE RunLen(_)
RunLen(w) ==
  IF w < Len(paper.text) /\ paper.text[w + 1] \notin {" ", "\n"}
  THEN 1 + RunLen(w + 1)
  ELSE 0

\* C21: when a word longer than cols begins visual line i at offset w, the
\* line's text is the word's first cols characters, its span is [w, w + cols),
\* and line i + 1 starts at w + cols with the characters of the word that
\* follow.
C21_LongWordIsCut ==
  \A i \in 1..Len(PostVis) :
    LET w == PostVis[i].start
        L == RunLen(w)
    IN L > paper.cols =>
         /\ PostVis[i].text = SubSeq(paper.text, w + 1, w + paper.cols)
         /\ PostVis[i].end = w + paper.cols
         /\ i < Len(PostVis)
         /\ PostVis[i + 1].start = w + paper.cols
         /\ LET rest == Min2(L - paper.cols, paper.cols)
            IN SubSeq(PostVis[i + 1].text, 1, rest) =
                 SubSeq(paper.text, w + paper.cols + 1, w + paper.cols + rest)

\* A word of five characters at width 2: two cuts and the rest.
C21_Witness_FiveAtTwo ==
  /\ paper.cols = 2
  /\ paper.text = <<"a", "b", "a", "b", "a">>
  /\ Len(PostVis) = 3
  /\ PostVis[2].start = 2

\* --------------------------------------------------------------------- C22
\* The offsets at which an empty paragraph lies: the start of the buffer or
\* just after a newline, with the end of the buffer or a newline next.
EmptyParagraphs ==
  {p \in 0..Len(paper.text) :
     /\ p = 0 \/ paper.text[p] = "\n"
     /\ p = Len(paper.text) \/ paper.text[p + 1] = "\n"}

\* The visual lines that start at offset p.
LinesAt(p) == {i \in 1..Len(PostVis) : PostVis[i].start = p}

\* C22: every empty paragraph has exactly one visual line, with text "" and
\* start = end = the paragraph's offset; the empty buffer has exactly the line
\* {lineNo: 1, text: "", start: 0, end: 0}; every layout has a line.
C22_EmptyParagraphs ==
  /\ \A p \in EmptyParagraphs :
       /\ Cardinality(LinesAt(p)) = 1
       /\ \A i \in LinesAt(p) : PostVis[i].text = <<>> /\ PostVis[i].end = p
  /\ paper.text = <<>> =>
       PostVis = <<[lineNo |-> 1, text |-> <<>>, start |-> 0, end |-> 0]>>
  /\ Len(PostVis) >= 1

\* A word, an empty paragraph between two newlines, and one after the
\* trailing newline.
C22_Witness_TwoEmpty ==
  /\ paper.text = <<"a", "\n", "\n">>
  /\ Len(PostVis) = 3
  /\ PostVis[3].start = 3

\* --------------------------------------------------------------------- C23
\* Offset k (0-based) of the buffer before the call lies in the span of one of
\* the lines s..e of the layout before the call.
InSpans(k, s, e) == \E i \in s..e : PreVis[i].start <= k /\ k < PreVis[i].end

\* The characters of the buffer before the call outside the spans of lines
\* s..e, in order.
RECURSIVE OutsideSpans(_, _, _)
OutsideSpans(k, s, e) ==
  IF k >= Len(last.pre.text) THEN <<>>
  ELSE (IF InSpans(k, s, e) THEN <<>> ELSE <<last.pre.text[k + 1]>>)
         \o OutsideSpans(k + 1, s, e)

\* a is a subsequence of b.
RECURSIVE IsSubsequence(_, _)
IsSubsequence(a, b) ==
  IF a = <<>> THEN TRUE
  ELSE IF b = <<>> THEN FALSE
  ELSE IF Head(a) = Head(b) THEN IsSubsequence(Tail(a), Tail(b))
  ELSE IsSubsequence(a, Tail(b))

\* C23 (as claimed): clear_range(s, e) removes only content of the addressed
\* lines: the characters of the buffer before the call that lie outside the
\* spans of lines s..e of the layout before the call are still in the buffer,
\* in order.
C23_ClearRangeKeepsOthers ==
  last.op = "clear_range" =>
    IsSubsequence(OutsideSpans(0, last.out.startLine, last.out.endLine), paper.text)

\* --------------------------------------------------------------------- C24
\* The number of newline characters of the buffer.
Newlines == Cardinality({k \in 1..Len(paper.text) : paper.text[k] = "\n"})

\* C24 (as claimed): every paragraph of the buffer has at least one visual
\* line: the line count is at least the number of newlines plus one.
C24_ParagraphsAddressable == Len(PostVis) >= Newlines + 1

\* --------------------------------------------------------------------- C25
\* The buffer between the offsets of a visual line.
SpanText(v) == SubSeq(paper.text, v.start + 1, v.end)

\* t with each run of spaces collapsed to one space.
RECURSIVE CollapseSpaces(_)
CollapseSpaces(t) ==
  IF Len(t) < 2 THEN t
  ELSE IF t[1] = " " /\ t[2] = " " THEN CollapseSpaces(Tail(t))
  ELSE <<t[1]>> \o CollapseSpaces(Tail(t))

\* C25: for each visual line the buffer between its offsets has no newline,
\* begins and ends with a character other than the space when it is not empty,
\* and with each run of spaces collapsed to one space it is the line's text.
C25_SpanMatchesText ==
  \A i \in 1..Len(PostVis) :
    LET t == SpanText(PostVis[i]) IN
    /\ PostVis[i].start <= PostVis[i].end
    /\ Len(t) = PostVis[i].end - PostVis[i].start
    /\ \A k \in 1..Len(t) : t[k] # "\n"
    /\ t # <<>> => (t[1] # " " /\ t[Len(t)] # " ")
    /\ CollapseSpaces(t) = PostVis[i].text

\* Two words two spaces apart on one line: a span wider than the text.
C25_Witness_WideSpan ==
  /\ paper.cols = 3
  /\ paper.text = <<"a", " ", " ", "b">>
  /\ PostVis[1].text = <<"a", " ", "b">>
  /\ PostVis[1].end - PostVis[1].start = 4

EventsOf(k, name, mode) ==
  { n \in 1..Len(job.events) :
      /\ job.events[n].event = name
      /\ "stepIndex" \in DOMAIN job.events[n]
      /\ job.events[n].stepIndex = k
      /\ ("mode" \in DOMAIN job.events[n] => job.events[n].mode = mode) }

\* The places of the paper.state events.
StateEvents == { n \in 1..Len(job.events) : job.events[n].event = "paper.state" }

\* The final paper.state follows every step: it is broadcast once the
\* applying loop is left.
StepsApplied ==
  /\ job.pc \in {"presenting", "finished", "failed"}
  /\ job.steps # <<>>

\* paper.applied of step k, then its html preview sequence, then a
\* paper.state event.
HtmlPreviewed(k) ==
  \E a \in EventsOf(k, "paper.applied", "html"),
     r \in EventsOf(k, "paper.preview_reset", "html"),
     b \in EventsOf(k, "paper.preview_start", "html"),
     h \in EventsOf(k, "paper.preview_html_delta", "html"),
     d \in EventsOf(k, "paper.preview_done", "html"),
     f \in StateEvents :
    a < r /\ r < b /\ b < h /\ h < d /\ d < f

\* C27: once the steps are applied, every write_replace step with a text that
\* is not blank and that changed the buffer has paper.applied and then the
\* html preview sequence among the job's events, before the final paper.state.
C27_ReplaceIsPreviewed ==
  StepsApplied =>
    \A k \in 1..Len(job.steps) :
      ( /\ job.steps[k].op = "write_replace"
        /\ Trim(TextOf(job.steps[k])) # <<>>
        /\ job.wrote[k] )
        => HtmlPreviewed(k)

\* --------------------------------------------------------------------- C28
IsDone(e) == e.event = "done"

IsNotDone(e) == e.event # "done"

\* C28: a client whose stream is open has received every event of the job in
\* order; a client whose stream the server ended has received every event of
\* the job in order and exactly one done event, as its last event.
C28_SubscribersSeeAll ==
  \A s \in SubIds :
    /\ subs[s].state = "open" => subs[s].got = job.events
    /\ subs[s].state = "ended" =>
         /\ SelectSeq(subs[s].got, IsNotDone) = SelectSeq(job.events, IsNotDone)
         /\ Len(SelectSeq(subs[s].got, IsDone)) = 1
         /\ IsDone(subs[s].got[Len(subs[s].got)])


====
